---- MODULE Spec2Model ----
(***************************************************************************)
(* Authentication / session gating of the structure-plan template:         *)
(*   - the Edge Gate (src/middleware.ts) with the route tables             *)
(*     (src/constants/routes.ts) and the callback sanitizer (lib/url),     *)
(*   - the RPC dispatch layer (server/api/orpc) with the user router       *)
(*     (src/server/api/routers/user.ts),                                   *)
(*   - the Session Resolver (server/auth getServerSession) in the render   *)
(*     of a page, over a session store that can expire sessions and fail.  *)
(* Strings are TLA+ strings; a character is a string of length 1.          *)
(***************************************************************************)
EXTENDS Integers, Sequences, FiniteSets, TLC

VARIABLES
    gateReq,      \* the request the Edge Gate is looking at (or NoReq)
    gateResp,     \* the Edge Gate's answer to gateReq (or NoResp)
    hops,         \* number of redirects the client has followed so far
    trail,        \* sequence of [req, resp] pairs of the redirects followed
    sanIn,        \* last input handed to getSafeCallbackUrl
    sanOut,       \* its result
    users,        \* the user table: set of rows
    calls,        \* RPC calls: function call id -> call record
    log,          \* sequence of timing log lines (procedure paths)
    store,        \* the session store: expired tokens, and whether it answers
    pages,        \* page requests: function page id -> render record
    boot,         \* the server process: its environment and how far startup got
    form          \* the auth server action in progress (or none)

gateVars == <<gateReq, gateResp, hops, trail>>
sanVars  == <<sanIn, sanOut>>
rpcVars  == <<users, calls, log>>
pageVars == <<store, pages>>
appVars  == <<boot, form>>
vars     == <<gateReq, gateResp, hops, trail, sanIn, sanOut, users, calls, log,
              store, pages, boot, form>>

(***************************************************************************)
(* JavaScript values.                                                      *)
(* A value of type string | null | undefined is a record tagged by t.       *)
(***************************************************************************)
Null      == [t |-> "null"]
Undefined == [t |-> "undefined"]
Str(s)    == [t |-> "string", s |-> s]

(***************************************************************************)
(* String helpers (String.prototype.startsWith, charAt, indexOf)           *)
(***************************************************************************)
CharAt(s, i) == SubSeq(s, i, i)

Drop(s, n) == SubSeq(s, n + 1, Len(s))

startsWith(s, p) == Len(s) >= Len(p) /\ SubSeq(s, 1, Len(p)) = p

\* index of the first character of s that lies in the set cs, or Len(s)+1
RECURSIVE FirstIn(_, _, _)
FirstIn(s, cs, i) ==
    IF i > Len(s) THEN Len(s) + 1
    ELSE IF CharAt(s, i) \in cs THEN i
    ELSE FirstIn(s, cs, i + 1)

\* s without the characters of the set cs
RECURSIVE Without(_, _)
Without(s, cs) ==
    IF Len(s) = 0 THEN ""
    ELSE IF Head(s) \in cs THEN Without(Tail(s), cs)
    ELSE SubSeq(s, 1, 1) \o Without(Tail(s), cs)

\* s with every character of the set cs replaced by the character c
RECURSIVE Replace(_, _, _)
Replace(s, cs, c) ==
    IF Len(s) = 0 THEN ""
    ELSE (IF Head(s) \in cs THEN c ELSE SubSeq(s, 1, 1)) \o Replace(Tail(s), cs, c)

\* s split at every occurrence of a character of the set seps
RECURSIVE Split(_, _)
Split(s, seps) ==
    LET i == FirstIn(s, seps, 1)
    IN  IF i > Len(s) THEN <<s>>
        ELSE <<SubSeq(s, 1, i - 1)>> \o Split(Drop(s, i), seps)

\* "/" \o seg1 \o "/" \o seg2 ... for a sequence of segments
RECURSIVE JoinPath(_)
JoinPath(segs) ==
    IF Len(segs) = 0 THEN ""
    ELSE "/" \o Head(segs) \o JoinPath(Tail(segs))

(***************************************************************************)
(* Route tables: src/constants/routes.ts                                   *)
(***************************************************************************)
ROUTES ==
    [ HOME            |-> "/",
      SIGNIN          |-> "/sgnin",
      SIGNUP          |-> "/signup",
      VERIFY_EMAIL    |-> "/verify-email",
      FORGOT_PASSWORD |-> "/forgot-password",
      RESET_PASSWORD  |-> "/reset-password",
      DASHBOARD          |-> "/dashboard",
      DASHBOARD_SETTINGS |-> "/dashboard/settings",
      DASHBOARD_PROFILE  |-> "/dashboard/profile",
      ADMIN          |-> "/dashboard/admin",
      ADMIN_USERS    |-> "/dashboard/admin/users",
      ADMIN_SETTINGS |-> "/dashboard/admin/settings" ]

GUEST_ONLY_ROUTES ==
    << ROUTES.SIGNIN, ROUTES.SIGNUP, ROUTES.FORGOT_PASSWORD,
       ROUTES.RESET_PASSWORD, ROUTES.VERIFY_EMAIL >>

PROTECTED_ROUTES == << ROUTES.DASHBOARD >>

ADMIN_ROUTES == << ROUTES.ADMIN >>

NO_AUTH_ROUTES == << >>

SESSION_COOKIE_NAME == "better-auth.session_token"

\* a bare prefix test: the "/" after the route is not required
matchesRoute_PrefixOnly(pathname, routes) ==
    \E i \in 1..Len(routes) : startsWith(pathname, routes[i])

\* routes.some(route => pathname === route || pathname.startsWith(route + "/"))
matchesRoute(pathname, routes) ==
    \E i \in 1..Len(routes) :
        pathname = routes[i] \/ startsWith(pathname, routes[i] \o "/")

(***************************************************************************)
(* Safe callback resolution: lib/url getSafeCallbackUrl                    *)
(***************************************************************************)
\* JavaScript truthiness test !v of a value of type string | null | undefined
Falsy(v) == v.t # "string" \/ v.s = ""

\* getSafeCallbackUrl falling back to the sign-in route instead of "/"
getSafeCallbackUrl_FallbackSignin(url) ==
    IF Falsy(url) THEN "/sgnin"
    ELSE IF startsWith(url.s, "/") /\ ~startsWith(url.s, "//") THEN url.s
    ELSE "/sgnin"

\* getSafeCallbackUrl without the protocol-relative check
getSafeCallbackUrl_NoDoubleSlashCheck(url) ==
    IF Falsy(url) THEN "/"
    ELSE IF startsWith(url.s, "/") THEN url.s
    ELSE "/"

getSafeCallbackUrl(url) ==
    IF Falsy(url) THEN "/"
    ELSE IF startsWith(url.s, "/") /\ ~startsWith(url.s, "//") THEN url.s
    ELSE "/"

(***************************************************************************)
(* application/x-www-form-urlencoded, as used by URLSearchParams.set/get   *)
(***************************************************************************)
FormSafe ==
    { "a","b","c","d","e","f","g","h","i","j","k","l","m","n","o","p","q",
      "r","s","t","u","v","w","x","y","z",
      "A","B","C","D","E","F","G","H","I","J","K","L","M","N","O","P","Q",
      "R","S","T","U","V","W","X","Y","Z",
      "0","1","2","3","4","5","6","7","8","9","*","-",".","_" }

PercentCode ==
    [ c \in {"/", "\\", "?", "=", "%", ":", "&", "#", "\t", "+"} |->
        CASE c = "/"  -> "%2F"
          [] c = "\\" -> "%5C"
          [] c = "?"  -> "%3F"
          [] c = "="  -> "%3D"
          [] c = "%"  -> "%25"
          [] c = ":"  -> "%3A"
          [] c = "&"  -> "%26"
          [] c = "#"  -> "%23"
          [] c = "\t" -> "%09"
          [] c = "+"  -> "%2B" ]

RECURSIVE FormEncode(_)
FormEncode(s) ==
    IF Len(s) = 0 THEN ""
    ELSE (IF Head(s) \in FormSafe THEN Head(s)
          ELSE IF Head(s) = " " THEN "+"
          ELSE PercentCode[Head(s)]) \o FormEncode(Tail(s))

RECURSIVE FormDecode(_)
FormDecode(s) ==
    IF Len(s) = 0 THEN ""
    ELSE IF Head(s) = "+" THEN " " \o FormDecode(Tail(s))
    ELSE IF Head(s) = "%" /\ Len(s) >= 3
            /\ \E c \in DOMAIN PercentCode : PercentCode[c] = SubSeq(s, 1, 3)
         THEN (CHOOSE c \in DOMAIN PercentCode : PercentCode[c] = SubSeq(s, 1, 3))
              \o FormDecode(Drop(s, 3))
    ELSE Head(s) \o FormDecode(Tail(s))

\* URLSearchParams.get(name) on a URL's search string ("" or "?...")
RECURSIVE FirstParam(_, _)
FirstParam(pieces, name) ==
    IF Len(pieces) = 0 THEN Null
    ELSE LET piece == Head(pieces)
             i     == FirstIn(piece, {"="}, 1)
         IN  IF Len(piece) > 0 /\ FormDecode(SubSeq(piece, 1, i - 1)) = name
             THEN Str(FormDecode(Drop(piece, i)))
             ELSE FirstParam(Tail(pieces), name)

searchParamsGet(search, name) ==
    FirstParam(Split(IF startsWith(search, "?") THEN Drop(search, 1) ELSE search,
                     {"&"}), name)

\* URLSearchParams.set(name, value) on a URL that has no query yet
searchParamsSet(url, name, value) ==
    [url EXCEPT !.search = "?" \o FormEncode(name) \o "=" \o FormEncode(value)]

(***************************************************************************)
(* new URL(reference, base) for an http(s) base: the part of the WHATWG    *)
(* URL parser the gate exercises.  A URL is a record; a parse failure      *)
(* (new URL throws TypeError) is the record Failure.                       *)
(***************************************************************************)
Failure == [kind |-> "failure"]

MkURL(scheme, host, pathname, search) ==
    [kind |-> "url", scheme |-> scheme, host |-> host,
     pathname |-> pathname, search |-> search]

SpecialSchemes == {"http", "https"}

SchemeChars ==
    { "a","b","c","d","e","f","g","h","i","j","k","l","m","n","o","p","q",
      "r","s","t","u","v","w","x","y","z","0","1","2","3","4","5","6","7",
      "8","9","+","-","." }

Slashes == {"/", "\\"}

\* dot-segment removal over the segments of a path (path state)
RECURSIVE Shorten(_, _)
Shorten(segs, acc) ==
    IF Len(segs) = 0 THEN acc
    ELSE LET seg  == Head(segs)
             last == Len(segs) = 1
         IN  IF seg = ".."
             THEN Shorten(Tail(segs),
                          (IF Len(acc) > 0 THEN SubSeq(acc, 1, Len(acc) - 1) ELSE acc)
                          \o (IF last THEN <<"">> ELSE << >>))
             ELSE IF seg = "."
             THEN Shorten(Tail(segs), acc \o (IF last THEN <<"">> ELSE << >>))
             ELSE Shorten(Tail(segs), acc \o <<seg>>)

\* path state + query state: s is the input from the start of the path on;
\* dir holds the segments the path is appended to (empty for an absolute path)
ParsePath(scheme, host, dir, s) ==
    LET noFrag == SubSeq(s, 1, FirstIn(s, {"#"}, 1) - 1)
        q      == FirstIn(noFrag, {"?"}, 1)
        raw    == SubSeq(noFrag, 1, q - 1)
        search == IF Len(Drop(noFrag, q - 1)) > 1 THEN Drop(noFrag, q - 1) ELSE ""
        \* in a special URL "\" is a path separator like "/"
        norm   == Replace(raw, {"\\"}, "/")
        segs   == Split(IF startsWith(norm, "/") THEN Drop(norm, 1) ELSE norm, {"/"})
        path   == JoinPath(Shorten(dir \o segs, << >>))
    IN  MkURL(scheme, host, IF path = "" THEN "/" ELSE path, search)

\* special authority ignore slashes state, authority state, host state
ParseAuthority(scheme, s) ==
    LET i    == FirstIn(s, {"/", "\\", "?", "#"}, 1)
        host == SubSeq(s, 1, i - 1)
    IN  IF host = "" THEN Failure
        ELSE ParsePath(scheme, host, << >>, Drop(s, i - 1))

RECURSIVE SkipSlashes(_)
SkipSlashes(s) ==
    IF Len(s) > 0 /\ Head(s) \in Slashes THEN SkipSlashes(Tail(s)) ELSE s

\* relative state and relative slash state
ParseRelative(s, base) ==
    IF s = "" THEN base
    ELSE IF Head(s) \in Slashes
    THEN IF Len(s) >= 2 /\ CharAt(s, 2) \in Slashes
         THEN ParseAuthority(base.scheme, SkipSlashes(Drop(s, 2)))
         ELSE ParsePath(base.scheme, base.host, << >>, s)
    ELSE IF Head(s) = "?"
    THEN ParsePath(base.scheme, base.host, << >>, base.pathname \o s)
    ELSE IF Head(s) = "#" THEN base
    ELSE LET bsegs == Split(Drop(base.pathname, 1), {"/"})
         IN  ParsePath(base.scheme, base.host,
                       SubSeq(bsegs, 1, Len(bsegs) - 1), s)

ResolveURL(reference, base) ==
    LET input == Without(reference, {"\t", "\n", "\r"})
        i     == FirstIn(input, {":", "/", "\\", "?", "#"}, 1)
        hasScheme ==
            /\ i > 1 /\ i <= Len(input) /\ CharAt(input, i) = ":"
            /\ CharAt(input, 1) \notin {"0","1","2","3","4","5","6","7","8","9","+","-","."}
            /\ \A k \in 1..(i - 1) : CharAt(input, k) \in SchemeChars
        scheme == SubSeq(input, 1, i - 1)
        rest   == Drop(input, i)
    IN  IF ~hasScheme THEN ParseRelative(input, base)
        ELSE IF scheme \notin SpecialSchemes THEN MkURL(scheme, "", rest, "")
        ELSE IF scheme = base.scheme /\ ~startsWith(rest, "//")
        THEN ParseRelative(rest, base)
        ELSE ParseAuthority(scheme, SkipSlashes(rest))

\* URL.href
Href(url) ==
    IF url.host = "" THEN url.scheme \o ":" \o url.pathname
    ELSE url.scheme \o "://" \o url.host \o url.pathname \o url.search

\* URL.origin, as a string
Origin(url) ==
    IF url.scheme \in SpecialSchemes THEN url.scheme \o "://" \o url.host
    ELSE "null"

(***************************************************************************)
(* Edge Gate: src/middleware.ts                                            *)
(***************************************************************************)
NoReq  == [kind |-> "none"]
NoResp == [kind |-> "none"]

\* NextResponse.next()
ResponseNext == [kind |-> "next"]

\* NextResponse.redirect(url): status 307, Location: url.href
ResponseRedirect(url) == [kind |-> "redirect", status |-> 307, location |-> url]

\* an exception leaving authMiddleware
ResponseThrow == [kind |-> "throw"]

\* the request was not handed to the middleware (config.matcher)
ResponseBypass == [kind |-> "bypass"]

\* !!sessionCookie?.value
\* a gate that asks the session store about the cookie
hasSessionCookie_AsksStore(request) ==
    /\ ~Falsy(request.cookie)
    /\ store.up
    /\ request.cookie.s \notin store.expired
    /\ request.cookie.s \in {"tA", "tB"}

hasSessionCookie(request) == ~Falsy(request.cookie)

\* config.matcher:
\* "/((?!api|_next/static|_next/image|favicon.ico|sitemap.xml|robots.txt|.*\\..*$).*)"
matcher(pathname) ==
    /\ startsWith(pathname, "/")
    /\ LET rest == Drop(pathname, 1)
       IN  /\ ~startsWith(rest, "api")
           /\ ~startsWith(rest, "_next/static")
           /\ ~startsWith(rest, "_next/image")
           /\ ~(Len(rest) >= 11 /\ startsWith(rest, "favicon") /\ SubSeq(rest, 9, 11) = "ico")
           /\ ~(Len(rest) >= 11 /\ startsWith(rest, "sitemap") /\ SubSeq(rest, 9, 11) = "xml")
           /\ ~(Len(rest) >= 10 /\ startsWith(rest, "robots") /\ SubSeq(rest, 8, 10) = "txt")
           /\ FirstIn(rest, {"."}, 1) > Len(rest)

\* authMiddleware with the callbackUrl parameter left off the sign-in redirect
authMiddleware_NoCallback(request) ==
    LET pathname == request.url.pathname
        isGuestOnlyRoute == matchesRoute(pathname, GUEST_ONLY_ROUTES)
        isProtectedRoute == matchesRoute(pathname, PROTECTED_ROUTES)
        isAdminRoute     == matchesRoute(pathname, ADMIN_ROUTES)
    IN  IF matchesRoute(pathname, NO_AUTH_ROUTES) THEN ResponseNext
        ELSE IF ~hasSessionCookie(request)
        THEN IF isGuestOnlyRoute THEN ResponseNext
             ELSE IF isProtectedRoute \/ isAdminRoute
             THEN ResponseRedirect(ResolveURL("/sgnin", request.url))
             ELSE ResponseNext
        ELSE IF isGuestOnlyRoute
        THEN LET callbackParam == searchParamsGet(request.url.search, "callbackUrl")
                 callbackUrl   == getSafeCallbackUrl(callbackParam)
                 target        == ResolveURL(callbackUrl, request.url)
             IN  IF target = Failure THEN ResponseThrow
                 ELSE ResponseRedirect(target)
        ELSE ResponseNext

\* authMiddleware that sends every cookie-less request outside the guest-only
\* list to sign-in, listed or not
authMiddleware_DenyByDefault(request) ==
    LET pathname == request.url.pathname
        isGuestOnlyRoute == matchesRoute(pathname, GUEST_ONLY_ROUTES)
    IN  IF matchesRoute(pathname, NO_AUTH_ROUTES) THEN ResponseNext
        ELSE IF ~hasSessionCookie(request)
        THEN IF isGuestOnlyRoute THEN ResponseNext
             ELSE LET signInUrl == ResolveURL("/sgnin", request.url)
                  IN  ResponseRedirect(searchParamsSet(signInUrl, "callbackUrl", pathname))
        ELSE IF isGuestOnlyRoute
        THEN LET callbackParam == searchParamsGet(request.url.search, "callbackUrl")
                 callbackUrl   == getSafeCallbackUrl(callbackParam)
                 target        == ResolveURL(callbackUrl, request.url)
             IN  IF target = Failure THEN ResponseThrow
                 ELSE ResponseRedirect(target)
        ELSE ResponseNext

\* authMiddleware with a role check on admin paths: only the cookie of the
\* admin's session passes, the others are sent to the dashboard
authMiddleware_AdminRoleCheck(request) ==
    LET pathname == request.url.pathname
        isGuestOnlyRoute == matchesRoute(pathname, GUEST_ONLY_ROUTES)
        isProtectedRoute == matchesRoute(pathname, PROTECTED_ROUTES)
        isAdminRoute     == matchesRoute(pathname, ADMIN_ROUTES)
    IN  IF matchesRoute(pathname, NO_AUTH_ROUTES) THEN ResponseNext
        ELSE IF ~hasSessionCookie(request)
        THEN IF isGuestOnlyRoute THEN ResponseNext
             ELSE IF isProtectedRoute \/ isAdminRoute
             THEN LET signInUrl == ResolveURL("/sgnin", request.url)
                  IN  ResponseRedirect(searchParamsSet(signInUrl, "callbackUrl", pathname))
             ELSE ResponseNext
        ELSE IF isGuestOnlyRoute
        THEN LET callbackParam == searchParamsGet(request.url.search, "callbackUrl")
                 callbackUrl   == getSafeCallbackUrl(callbackParam)
                 target        == ResolveURL(callbackUrl, request.url)
             IN  IF target = Failure THEN ResponseThrow
                 ELSE ResponseRedirect(target)
        ELSE IF isAdminRoute /\ request.cookie # Str("tA")
        THEN ResponseRedirect(ResolveURL("/dashboard", request.url))
        ELSE ResponseNext

authMiddleware(request) ==
    LET pathname == request.url.pathname
        isGuestOnlyRoute == matchesRoute(pathname, GUEST_ONLY_ROUTES)
        isProtectedRoute == matchesRoute(pathname, PROTECTED_ROUTES)
        isAdminRoute     == matchesRoute(pathname, ADMIN_ROUTES)
    IN  IF matchesRoute(pathname, NO_AUTH_ROUTES) THEN ResponseNext
        ELSE IF ~hasSessionCookie(request)
        THEN IF isGuestOnlyRoute THEN ResponseNext
             ELSE IF isProtectedRoute \/ isAdminRoute
             THEN LET signInUrl == ResolveURL("/sgnin", request.url)
                  IN  ResponseRedirect(searchParamsSet(signInUrl, "callbackUrl", pathname))
             ELSE ResponseNext
        ELSE IF isGuestOnlyRoute
        THEN LET callbackParam == searchParamsGet(request.url.search, "callbackUrl")
                 callbackUrl   == getSafeCallbackUrl(callbackParam)
                 target        == ResolveURL(callbackUrl, request.url)
             IN  IF target = Failure THEN ResponseThrow
                 ELSE ResponseRedirect(target)
        ELSE IF isProtectedRoute \/ isAdminRoute THEN ResponseNext
        ELSE ResponseNext

(***************************************************************************)
(* Requests the gate is exercised with                                     *)
(***************************************************************************)
AppScheme == "https"
AppHost   == "app.example"

RequestPaths ==
    { "/", "/sgnin", "/sgnin/sso", "/signup", "/reset-password",
      "/dashboard", "/dashboard/settings", "/dashboard/admin",
      "/dashboard/admin/users", "/dashboardx", "/about", "/login",
      "/dashboard/report.pdf", "/dashboard/a+b", "/api/rpc", "/favicon.ico" }

CallbackValues ==
    { Null, Str(""), Str("/"), Str("/dashboard"), Str("/dashboard/settings?tab=1"),
      Str("/about"), Str("dashboard"), Str("/sgnin"), Str("/signup"),
      Str("/sgnin?callbackUrl=/signup"), Str("/dashboard/../sgnin"),
      Str("https://evil.example/x"), Str("//evil.example"),
      Str("/\\evil.example"), Str("/\t/evil.example"), Str("/\\"),
      Str("javascript:alert") }

Cookies == { Undefined, Str(""), Str("tok"), Str("forged"), Str("tA"), Str("tB") }

\* the URL of a request for pathname carrying the given callbackUrl parameter
RequestURL(pathname, cb) ==
    MkURL(AppScheme, AppHost, pathname,
          IF cb = Null THEN "" ELSE "?callbackUrl=" \o FormEncode(cb.s))

InApp(url) == url.kind = "url" /\ Origin(url) = AppScheme \o "://" \o AppHost

MaxHops == 5

\* what happens to a request at the edge: the middleware's answer, or none
GateAnswer(request) ==
    IF matcher(request.url.pathname) THEN authMiddleware(request) ELSE ResponseBypass

\* a client sends a fresh request
Receive ==
    /\ gateReq = NoReq
    /\ \E pathname \in RequestPaths, cb \in CallbackValues, cookie \in Cookies :
          gateReq' = [url |-> RequestURL(pathname, cb), cookie |-> cookie]
    /\ gateResp' = NoResp
    /\ hops' = 0
    /\ trail' = << >>
    /\ UNCHANGED <<sanVars, rpcVars, pageVars, appVars>>

\* the middleware runs on a request its matcher selects
Gate ==
    /\ gateReq # NoReq /\ gateResp = NoResp
    /\ matcher(gateReq.url.pathname)
    /\ gateResp' = authMiddleware(gateReq)
    /\ UNCHANGED <<gateReq, hops, trail, sanVars, rpcVars, pageVars, appVars>>

\* a request the matcher excludes goes straight to routing
Bypass ==
    /\ gateReq # NoReq /\ gateResp = NoResp
    /\ ~matcher(gateReq.url.pathname)
    /\ gateResp' = ResponseBypass
    /\ UNCHANGED <<gateReq, hops, trail, sanVars, rpcVars, pageVars, appVars>>

\* the client follows a redirect that stays inside the application
Follow ==
    /\ gateResp.kind = "redirect"
    /\ InApp(gateResp.location)
    /\ hops < MaxHops
    /\ gateReq' = [url |-> gateResp.location, cookie |-> gateReq.cookie]
    /\ gateResp' = NoResp
    /\ hops' = hops + 1
    /\ trail' = Append(trail, [req |-> gateReq, resp |-> gateResp])
    /\ UNCHANGED <<sanVars, rpcVars, pageVars, appVars>>

\* the exchange is over: the response was delivered (or the redirect dropped)
Finish ==
    /\ gateResp # NoResp
    /\ gateReq' = NoReq
    /\ gateResp' = NoResp
    /\ hops' = 0
    /\ trail' = << >>
    /\ UNCHANGED <<sanVars, rpcVars, pageVars, appVars>>

(***************************************************************************)
(* The sign-in form: hooks/use-safe-callbacks and SignInForm.onSubmit      *)
(***************************************************************************)
\* useSafeCallback with the callbackUrl parameter left unread
useSafeCallback_Ignored(url) == getSafeCallbackUrl(Null)

\* useSafeCallback on the page whose location is url
useSafeCallback(url) ==
    getSafeCallbackUrl(searchParamsGet(url.search, "callbackUrl"))

\* the cookie a successful sign-in sets
SignedInCookie == Str("tA")

\* the gate let the sign-in page through to a client without session cookie
SignInPageServed ==
    /\ gateReq # NoReq
    /\ gateReq.url.pathname = "/sgnin"
    /\ gateResp = ResponseNext
    /\ ~hasSessionCookie(gateReq)

\* onSubmit succeeded: router.refresh() requests the page's location again
SignInRefresh ==
    /\ SignInPageServed
    /\ hops < MaxHops
    /\ gateReq' = [url |-> gateReq.url, cookie |-> SignedInCookie]
    /\ gateResp' = NoResp
    /\ hops' = hops + 1
    /\ trail' = Append(trail, [req |-> gateReq, resp |-> gateResp])
    /\ UNCHANGED <<sanVars, rpcVars, pageVars, appVars>>

\* onSubmit succeeded: router.push(callbackUrl)
SignInPush ==
    /\ SignInPageServed
    /\ hops < MaxHops
    /\ LET target == ResolveURL(useSafeCallback(gateReq.url), gateReq.url)
       IN  /\ target # Failure
           /\ InApp(target)
           /\ gateReq' = [url |-> target, cookie |-> SignedInCookie]
    /\ gateResp' = NoResp
    /\ hops' = hops + 1
    /\ trail' = Append(trail, [req |-> gateReq, resp |-> gateResp])
    /\ UNCHANGED <<sanVars, rpcVars, pageVars, appVars>>

(***************************************************************************)
(* getSafeCallbackUrl exercised on its own                                 *)
(***************************************************************************)
MaxSanLen == 3

SanAlphabet == {"/", "\\", "d", ":"}

RECURSIVE StringsUpTo(_)
StringsUpTo(n) ==
    IF n = 0 THEN {""}
    ELSE LET shorter == StringsUpTo(n - 1)
         IN  shorter \cup {s \o c : s \in shorter, c \in SanAlphabet}

SanInputs ==
    {Null, Undefined}
    \cup {Str(s) : s \in StringsUpTo(MaxSanLen)}
    \cup {Str("https://evil.example/x"), Str("//evil.example"), Str("/dashboard")}

(***************************************************************************)
(* The user table and the sessions the auth library resolves               *)
(***************************************************************************)
UserIds == {"u1", "u2", "u3"}

MkUser(id, name, email, role) ==
    [id |-> id, name |-> name, email |-> email, emailVerified |-> TRUE,
     image |-> Null, role |-> role, banned |-> FALSE,
     createdAt |-> "t0", updatedAt |-> "t0"]

InitialUsers ==
    [id \in UserIds |->
        CASE id = "u1" -> MkUser("u1", "Ann", "ann@app.example", Str("admin"))
          [] id = "u2" -> MkUser("u2", "bob", "bob@app.example", Null)
          [] id = "u3" -> MkUser("u3", "abe", "abe@app.example", Str("user"))]

\* credentials a request can carry, and what auth.api.getSession makes of them
Tokens == {"none", "tA", "tB", "tNoUser"}

\* the session store as deployed: no session has expired, and it answers
StoreAtStart == [expired |-> {}, up |-> TRUE]

PageIds == {1, 2}

IdlePage == [pc |-> "idle"]

\* the server process is not running
ProcessOff == [phase |-> "off"]

\* no server action is running
NoAction == [pc |-> "idle"]

\* the session rows of the store, by the token that names them
SessionOf(token) ==
    CASE token = "tA" -> [t |-> "session", user |-> [t |-> "user", id |-> "u1"]]
      [] token = "tB" -> [t |-> "session", user |-> [t |-> "user", id |-> "u2"]]
      [] token = "tNoUser" -> [t |-> "session", user |-> Undefined]
      [] OTHER -> Null

\* an exception in place of a value
Thrown == [t |-> "thrown"]

\* getSession giving no session once the row of the session's user is gone
getSession_JoinsUser(token) ==
    IF token = "none" THEN Null
    ELSE IF ~store.up THEN Thrown
    ELSE IF token \in store.expired THEN Null
    ELSE IF /\ SessionOf(token) # Null
            /\ SessionOf(token).user # Undefined
            /\ SessionOf(token).user.id \notin DOMAIN users
    THEN Null
    ELSE SessionOf(token)

\* auth.api.getSession: null for a request without credential; otherwise the
\* store is asked: it throws when the store does not answer, and gives the
\* session the credential names, null when there is none or it has expired
getSession(token) ==
    IF token = "none" THEN Null
    ELSE IF ~store.up THEN Thrown
    ELSE IF token \in store.expired THEN Null
    ELSE SessionOf(token)

CallIds == {1, 2}

IdleCall == [pc |-> "idle"]

(***************************************************************************)
(* RPC dispatch: server/api/orpc (context, timingMiddleware,               *)
(* publicProcedure, protectedProcedure) and the schemas of schemas/user.ts *)
(***************************************************************************)
Num(n) == [t |-> "number", n |-> n]

Procedures ==
    {"user.me", "user.updateProfile", "user.deleteAccount",
     "user.getById", "user.list", "user.search"}

\* the procedures built on protectedProcedure; the others use publicProcedure
ProtectedProcedures ==
    {"user.me", "user.updateProfile", "user.deleteAccount", "user.search"}

\* the procedures declared with .input(schema)
InputProcedures ==
    {"user.updateProfile", "user.getById", "user.list", "user.search"}

\* createRPCContext: the session is resolved from the request headers
createRPCContext(token) ==
    IF getSession(token) = Thrown THEN Thrown
    ELSE [session |-> getSession(token), timingLogged |-> FALSE]

\* the check with the optional chaining on user left out
sessionLacksUser_NullOnly(context) == context.session = Null

\* !context.session?.user
sessionLacksUser(context) ==
    IF context.session = Null THEN TRUE
    ELSE context.session.user = Undefined

Ok(value)  == [ok |-> TRUE, value |-> value]
Err(code)  == [ok |-> FALSE, code |-> code]
Invalid    == [ok |-> FALSE]

\* record r restricted to the given keys: a column selection, and what a
\* z.object schema keeps of a value when it parses it
Project_All(r, keys) == r

Project(r, keys) == [k \in (keys \cap DOMAIN r) |-> r[k]]

UserSchemaKeys ==
    {"id", "name", "email", "emailVerified", "image", "role", "banned",
     "banReason", "banExpires", "createdAt", "updatedAt"}

\* PublicUserSchema = UserSchema.pick({id, name, image})
PublicUserSchemaKeys == {"id", "name", "image"}

InRange(v, lo, hi) == v.t = "number" /\ v.n >= lo /\ v.n <= hi

\* UpdateProfileSchema letting the keys it does not declare through
UpdateProfileSchema_Passthrough(input) ==
    IF /\ input.name = Undefined \/ (input.name.t = "string" /\ Len(input.name.s) >= 1)
       /\ input.image.t \in {"undefined", "null", "string"}
    THEN Ok([k \in {f \in DOMAIN input : input[f] # Undefined} |-> input[k]])
    ELSE Invalid

\* UpdateProfileSchema: name optional non-empty string, image optional
\* nullable URL; keys the schema does not declare are dropped
UpdateProfileSchema(input) ==
    IF /\ input.name = Undefined \/ (input.name.t = "string" /\ Len(input.name.s) >= 1)
       /\ input.image.t \in {"undefined", "null", "string"}
    THEN Ok([k \in {f \in {"name", "image"} : input[f] # Undefined} |-> input[k]])
    ELSE Invalid

GetUserByIdSchema(input) ==
    IF input.userId.t = "string" THEN Ok([userId |-> input.userId.s]) ELSE Invalid

\* ListUsersInputSchema with the bounds on limit and offset left out
ListUsersInputSchema_NoBounds(input) ==
    IF /\ input.limit.t \in {"undefined", "number"}
       /\ input.offset.t \in {"undefined", "number"}
       /\ input.search.t \in {"undefined", "string"}
    THEN Ok([limit  |-> IF input.limit = Undefined THEN 20 ELSE input.limit.n,
             offset |-> IF input.offset = Undefined THEN 0 ELSE input.offset.n,
             search |-> input.search])
    ELSE Invalid

\* ListUsersInputSchema: limit 1..100 default 20, offset >= 0 default 0
ListUsersInputSchema(input) ==
    IF /\ input.limit = Undefined \/ InRange(input.limit, 1, 100)
       /\ input.offset = Undefined \/ (input.offset.t = "number" /\ input.offset.n >= 0)
       /\ input.search.t \in {"undefined", "string"}
    THEN Ok([limit  |-> IF input.limit = Undefined THEN 20 ELSE input.limit.n,
             offset |-> IF input.offset = Undefined THEN 0 ELSE input.offset.n,
             search |-> input.search])
    ELSE Invalid

\* SearchUsersInputSchema: query non-empty, limit 1..50 default 10
SearchUsersInputSchema(input) ==
    IF /\ input.query.t = "string" /\ Len(input.query.s) >= 1
       /\ input.limit = Undefined \/ InRange(input.limit, 1, 50)
    THEN Ok([query |-> input.query.s,
             limit |-> IF input.limit = Undefined THEN 10 ELSE input.limit.n])
    ELSE Invalid

InputSchema(proc, input) ==
    CASE proc = "user.updateProfile" -> UpdateProfileSchema(input)
      [] proc = "user.getById"       -> GetUserByIdSchema(input)
      [] proc = "user.list"          -> ListUsersInputSchema(input)
      [] proc = "user.search"        -> SearchUsersInputSchema(input)

(***************************************************************************)
(* SQL statements the handlers issue (drizzle)                             *)
(***************************************************************************)
Lower(c) ==
    CASE c = "A" -> "a" [] c = "B" -> "b" [] c = "Z" -> "z" [] OTHER -> c

\* s ILIKE pattern: % matches any run of characters, _ any one character
RECURSIVE ilike(_, _)
ilike(s, pattern) ==
    IF Len(pattern) = 0 THEN Len(s) = 0
    ELSE IF Head(pattern) = "%"
    THEN ilike(s, Tail(pattern)) \/ (Len(s) > 0 /\ ilike(Tail(s), pattern))
    ELSE /\ Len(s) > 0
         /\ Head(pattern) = "_" \/ Lower(Head(s)) = Lower(Head(pattern))
         /\ ilike(Tail(s), Tail(pattern))

\* every order in which the rows with the given ids can come back: a SELECT
\* without ORDER BY promises none
RECURSIVE Orders(_)
Orders(ids) ==
    IF ids = {} THEN {<< >>}
    ELSE UNION {{<<id>> \o rest : rest \in Orders(ids \ {id})} : id \in ids}

Min(a, b) == IF a < b THEN a ELSE b

\* Select with the LIMIT and OFFSET clauses left off
SelectNoLimit(table, ids, keys, limit, offset) ==
    { [i \in 1..Len(order) |-> Project(table[order[i]], keys)] :
        order \in Orders(ids) }

\* SELECT keys FROM user WHERE id IN ids LIMIT limit OFFSET offset: the
\* results the database may return
Select(table, ids, keys, limit, offset) ==
    { [i \in 1..(Min(Len(order), offset + limit) - Min(Len(order), offset)) |->
          Project(table[order[Min(Len(order), offset) + i]], keys)] :
        order \in Orders(ids) }

NameMatches(table, q) == {id \in DOMAIN table : ilike(table[id].name, "%" \o q \o "%")}

(***************************************************************************)
(* One RPC call, step by step.  steps and dbOps record what the call has   *)
(* done so far: the stages it passed and the statements it issued.         *)
(***************************************************************************)
InputsOf(proc) ==
    CASE proc = "user.updateProfile" ->
            [name : {Undefined, Str(""), Str("Zed")}, image : {Undefined},
             id : {Undefined, Str("u2")}, role : {Undefined, Str("admin")}]
      [] proc = "user.getById" ->
            [userId : {Str("u1"), Str("u2"), Str("u9")}]
      [] proc = "user.list" ->
            [limit  : {Undefined, Num(0), Num(1), Num(2), Num(101)},
             offset : {Undefined, Num(1), Num(-1)},
             search : {Undefined, Str("a")}]
      [] proc = "user.search" ->
            [query : {Str(""), Str("a"), Str("b"), Str("%")},
             limit : {Undefined, Num(0), Num(1), Num(2), Num(50), Num(51)}]
      [] OTHER -> {Undefined}

NewCall(proc, input, token) ==
    [pc |-> "received", proc |-> proc, input |-> input, token |-> token,
     context |-> Undefined, shouldLog |-> FALSE, parsed |-> Undefined,
     result |-> Undefined, page |-> Undefined, steps |-> << >>, dbOps |-> << >>]

\* the stage a call is in when its handler may run
HandlerPc(proc) ==
    IF proc \in InputProcedures THEN "validated"
    ELSE IF proc \in ProtectedProcedures THEN "authorized"
    ELSE "timed"

Step(call, stage) == Append(call.steps, stage)

Stmt(call, op) == Append(call.dbOps, op)

\* context.session.user, undefined when the chain has nothing to read
SessionUser(call) ==
    IF call.context.session = Null THEN Undefined ELSE call.context.session.user

\* the row named by an id the caller sends along, when there is one
TargetId_FromInput(call) ==
    IF "id" \in DOMAIN call.input /\ call.input.id # Undefined
    THEN call.input.id.s
    ELSE SessionUser(call).id

\* const userId = context.session.user.id: the row me, updateProfile and
\* deleteAccount work on
TargetId(call) == SessionUser(call).id

\* the HTTP handler receives a call
RpcReceive(c) ==
    /\ calls[c].pc = "idle"
    /\ \E proc \in Procedures, token \in Tokens :
         \E input \in InputsOf(proc) :
            calls' = [calls EXCEPT ![c] = NewCall(proc, input, token)]
    /\ UNCHANGED <<users, log, gateVars, sanVars, pageVars, appVars>>

\* handleRequest: context: await createRPCContext({ headers })
RpcBuildContext(c) ==
    /\ calls[c].pc = "received"
    /\ calls' = [calls EXCEPT ![c] =
          IF createRPCContext(calls[c].token) = Thrown
          THEN [@ EXCEPT !.pc = "failed", !.result = Err("INTERNAL_SERVER_ERROR")]
          ELSE [@ EXCEPT !.pc = "context",
                         !.context = createRPCContext(calls[c].token),
                         !.steps = Step(calls[c], "context-built")]]
    /\ UNCHANGED <<users, log, gateVars, sanVars, pageVars, appVars>>

\* a timing layer that does not look at the flag
timingMiddleware_AlwaysLog(context) ==
    [shouldLog |-> TRUE,
     next      |-> [context EXCEPT !.timingLogged = TRUE]]

\* timingMiddleware up to its call of next(): the layer's own shouldLog, and
\* the context the rest of the chain runs with
timingMiddleware(context) ==
    [shouldLog |-> ~context.timingLogged,
     next      |-> [context EXCEPT !.timingLogged = TRUE]]

\* the flag kept in one place for all calls: entering the layer marks every
\* call in flight as instrumented
timingEnter_SharedFlag(cs, c) ==
    [d \in DOMAIN cs |->
        IF d = c
        THEN [cs[c] EXCEPT !.pc = "timed",
                           !.shouldLog = timingMiddleware(cs[c].context).shouldLog,
                           !.context = timingMiddleware(cs[c].context).next]
        ELSE IF cs[d].pc = "context"
        THEN [cs[d] EXCEPT !.context = timingMiddleware(cs[d].context).next]
        ELSE cs[d]]

\* the calls after call c has entered the timing layer: the flag goes into
\* the context next() hands down in that call, no other call sees it
timingEnter(cs, c) ==
    [cs EXCEPT ![c] =
        [@ EXCEPT !.pc = "timed",
                  !.shouldLog = timingMiddleware(cs[c].context).shouldLog,
                  !.context = timingMiddleware(cs[c].context).next]]

\* publicProcedure = o.use(timingMiddleware): the layer every procedure has
RpcTimingEnter(c) ==
    /\ calls[c].pc = "context"
    /\ calls' = timingEnter(calls, c)
    /\ UNCHANGED <<users, log, gateVars, sanVars, pageVars, appVars>>

\* the middleware protectedProcedure adds
RpcAuthorize(c) ==
    /\ calls[c].pc = "timed"
    /\ calls[c].proc \in ProtectedProcedures
    /\ calls' = [calls EXCEPT ![c] =
          IF sessionLacksUser(@.context)
          THEN [@ EXCEPT !.pc = "unwinding",
                         !.result = Err("UNAUTHORIZED"),
                         !.steps = Step(calls[c], "authorization-checked")]
          ELSE [@ EXCEPT !.pc = "authorized",
                         !.steps = Step(calls[c], "authorization-checked")]]
    /\ UNCHANGED <<users, log, gateVars, sanVars, pageVars, appVars>>

\* the input schema, applied after the middlewares that precede .input()
RpcValidateInput(c) ==
    /\ calls[c].pc \in {"timed", "authorized"}
    /\ calls[c].proc \in InputProcedures
    /\ calls[c].pc = (IF calls[c].proc \in ProtectedProcedures
                      THEN "authorized" ELSE "timed")
    /\ LET parsed == InputSchema(calls[c].proc, calls[c].input)
       IN  calls' = [calls EXCEPT ![c] =
              IF parsed.ok
              THEN [@ EXCEPT !.pc = "validated", !.parsed = parsed.value]
              ELSE [@ EXCEPT !.pc = "unwinding", !.result = Err("BAD_REQUEST")]]
    /\ UNCHANGED <<users, log, gateVars, sanVars, pageVars, appVars>>

(***************************************************************************)
(* Handlers of the user router: src/server/api/routers/user.ts             *)
(***************************************************************************)
AtHandler(c, proc) ==
    /\ calls[c].pc # "idle"
    /\ calls[c].proc = proc
    /\ calls[c].pc = HandlerPc(proc)

\* the handler returned value, or threw the error code
Returned(call, value, op) ==
    [call EXCEPT !.pc = "handled", !.result = Ok(value),
                 !.steps = Step(call, "handler-executed"),
                 !.dbOps = Stmt(call, op)]

\* context.session.user.id on a missing user: the handler dies with a
\* TypeError before it reaches the database
Crashed(call) ==
    [call EXCEPT !.pc = "unwinding", !.result = Err("INTERNAL_SERVER_ERROR"),
                 !.steps = Step(call, "handler-executed")]

Threw(call, code, op) ==
    [call EXCEPT !.pc = "unwinding", !.result = Err(code),
                 !.steps = Step(call, "handler-executed"),
                 !.dbOps = Stmt(call, op)]

RpcMe(c) ==
    /\ AtHandler(c, "user.me")
    /\ IF SessionUser(calls[c]) = Undefined
       THEN calls' = [calls EXCEPT ![c] = Crashed(@)]
       ELSE LET userId == TargetId(calls[c])
                op     == [op |-> "select", id |-> userId]
            IN  \E rows \in Select(users, DOMAIN users \cap {userId},
                                   UserSchemaKeys, 1, 0) :
                   calls' = [calls EXCEPT ![c] =
                      IF Len(rows) = 0 THEN Threw(@, "NOT_FOUND", op)
                      ELSE Returned(@, rows[1], op)]
    /\ UNCHANGED <<users, log, gateVars, sanVars, pageVars, appVars>>

RpcUpdateProfile(c) ==
    /\ AtHandler(c, "user.updateProfile")
    /\ IF SessionUser(calls[c]) = Undefined
       THEN /\ UNCHANGED users
            /\ calls' = [calls EXCEPT ![c] = Crashed(@)]
       ELSE LET userId == TargetId(calls[c])
                input  == calls[c].parsed
                op     == [op |-> "update", id |-> userId]
                \* .set({ ...input, updatedAt: new Date() })
                updated(row) ==
                   [k \in DOMAIN row |->
                       IF k = "updatedAt" THEN "now"
                       ELSE IF k \in DOMAIN input
                       THEN (IF input[k].t = "string" THEN input[k].s ELSE input[k])
                       ELSE row[k]]
            IN  IF userId \in DOMAIN users
                THEN /\ users' = [users EXCEPT ![userId] = updated(@)]
                     /\ calls' = [calls EXCEPT ![c] =
                                    Returned(@, updated(users[userId]), op)]
                ELSE /\ UNCHANGED users
                     /\ calls' = [calls EXCEPT ![c] = Threw(@, "NOT_FOUND", op)]
    /\ UNCHANGED <<log, gateVars, sanVars, pageVars, appVars>>

RpcDeleteAccount(c) ==
    /\ AtHandler(c, "user.deleteAccount")
    /\ IF SessionUser(calls[c]) = Undefined
       THEN /\ UNCHANGED users
            /\ calls' = [calls EXCEPT ![c] = Crashed(@)]
       ELSE LET userId == TargetId(calls[c])
                op     == [op |-> "delete", id |-> userId]
            IN  /\ users' = [id \in DOMAIN users \ {userId} |-> users[id]]
                /\ calls' = [calls EXCEPT ![c] = Returned(@, [success |-> TRUE], op)]
    /\ UNCHANGED <<log, gateVars, sanVars, pageVars, appVars>>

RpcGetById(c) ==
    /\ AtHandler(c, "user.getById")
    /\ LET userId == calls[c].parsed.userId
           op     == [op |-> "select", id |-> userId]
       IN  \E rows \in Select(users, DOMAIN users \cap {userId},
                              {"id", "name", "image"}, 1, 0) :
              calls' = [calls EXCEPT ![c] =
                 IF Len(rows) = 0 THEN Threw(@, "NOT_FOUND", op)
                 ELSE Returned(@, rows[1], op)]
    /\ UNCHANGED <<users, log, gateVars, sanVars, pageVars, appVars>>

\* the rows a list call looks at: all, or those whose name matches search
ListScope(table, input) ==
    IF Falsy(input.search) THEN DOMAIN table
    ELSE NameMatches(table, input.search.s)

\* user.list, first statement: the page
RpcListPage(c) ==
    /\ AtHandler(c, "user.list")
    /\ calls[c].page = Undefined
    /\ LET input == calls[c].parsed
       IN  \E rows \in Select(users, ListScope(users, input),
                              {"id", "name", "image"}, input.limit, input.offset) :
              calls' = [calls EXCEPT ![c] =
                 [@ EXCEPT !.page = [rows |-> rows],
                           !.steps = Step(calls[c], "handler-executed"),
                           !.dbOps = Stmt(calls[c], [op |-> "select", id |-> "*"])]]
    /\ UNCHANGED <<users, log, gateVars, sanVars, pageVars, appVars>>

\* user.list, second statement: the count
RpcListCount(c) ==
    /\ AtHandler(c, "user.list")
    /\ calls[c].page # Undefined
    /\ LET input == calls[c].parsed
           total == Cardinality(ListScope(users, input))
       IN  calls' = [calls EXCEPT ![c] =
              [@ EXCEPT !.pc = "handled",
                        !.result = Ok([users |-> calls[c].page.rows, total |-> total]),
                        !.dbOps = Stmt(calls[c], [op |-> "count", id |-> "*"])]]
    /\ UNCHANGED <<users, log, gateVars, sanVars, pageVars, appVars>>

RpcSearch(c) ==
    /\ AtHandler(c, "user.search")
    /\ LET input == calls[c].parsed
       IN  \E rows \in Select(users, NameMatches(users, input.query),
                              {"id", "name", "image"}, input.limit, 0) :
              calls' = [calls EXCEPT ![c] =
                 Returned(@, rows, [op |-> "select", id |-> "*"])]
    /\ UNCHANGED <<users, log, gateVars, sanVars, pageVars, appVars>>

\* the output schema of the procedure, applied to what the handler returned
OutputSchema(proc, value) ==
    CASE proc \in {"user.me", "user.updateProfile"} -> Project(value, UserSchemaKeys)
      [] proc = "user.deleteAccount" -> Project(value, {"success"})
      [] proc = "user.getById" -> Project(value, PublicUserSchemaKeys)
      [] proc = "user.list" ->
            [users |-> [i \in 1..Len(value.users) |->
                           Project(value.users[i], PublicUserSchemaKeys)],
             total |-> value.total]
      [] proc = "user.search" ->
            [i \in 1..Len(value) |-> Project(value[i], PublicUserSchemaKeys)]

RpcValidateOutput(c) ==
    /\ calls[c].pc = "handled"
    /\ calls' = [calls EXCEPT ![c] =
          [@ EXCEPT !.pc = "unwinding",
                    !.result = Ok(OutputSchema(calls[c].proc, @.value))]]
    /\ UNCHANGED <<users, log, gateVars, sanVars, pageVars, appVars>>

\* timingMiddleware's finally block, reached on return and on throw alike
RpcTimingExit(c) ==
    /\ calls[c].pc = "unwinding"
    /\ calls' = [calls EXCEPT ![c] = [@ EXCEPT !.pc = "done"]]
    /\ log' = IF calls[c].shouldLog
              THEN Append(log, [call |-> c, path |-> calls[c].proc])
              ELSE log
    /\ UNCHANGED <<users, gateVars, sanVars, pageVars, appVars>>

\* the response is serialized and sent; the call's log lines are rotated out
RpcRespond(c) ==
    /\ calls[c].pc \in {"done", "failed"}
    /\ calls' = [calls EXCEPT ![c] = IdleCall]
    /\ log' = SelectSeq(log, LAMBDA line : line.call # c)
    /\ UNCHANGED <<users, gateVars, sanVars, pageVars, appVars>>

RpcStep(c) ==
    \/ RpcReceive(c) \/ RpcBuildContext(c) \/ RpcTimingEnter(c)
    \/ RpcAuthorize(c) \/ RpcValidateInput(c)
    \/ RpcMe(c) \/ RpcUpdateProfile(c) \/ RpcDeleteAccount(c)
    \/ RpcGetById(c) \/ RpcListPage(c) \/ RpcListCount(c) \/ RpcSearch(c)
    \/ RpcValidateOutput(c) \/ RpcTimingExit(c) \/ RpcRespond(c)

(***************************************************************************)
(* Calls in flight together: separate requests, or the calls of one        *)
(* batched request (BatchHandlerPlugin), which share the context that      *)
(* handleRequest built.                                                    *)
(***************************************************************************)
ConcProcedures == {"user.list", "user.deleteAccount", "user.updateProfile"}

ConcTokens == {"none", "tA"}

ConcInputsOf(proc) ==
    CASE proc = "user.list" ->
            [limit : {Undefined, Num(2)}, offset : {Undefined}, search : {Undefined}]
      [] proc = "user.updateProfile" ->
            [name : {Str("Zed")}, image : {Undefined}, id : {Undefined}]
      [] OTHER -> {Undefined}

\* a request with one call arrives while another call may be in flight
ConcReceive(c) ==
    /\ calls[c].pc = "idle"
    /\ \E proc \in ConcProcedures, token \in ConcTokens :
         \E input \in ConcInputsOf(proc) :
            calls' = [calls EXCEPT ![c] = NewCall(proc, input, token)]
    /\ UNCHANGED <<users, log, gateVars, sanVars, pageVars, appVars>>

\* a batched request arrives: its calls run on the one context built for it
BatchReceive ==
    /\ \A c \in CallIds : calls[c].pc = "idle"
    /\ \E token \in ConcTokens :
         \E procs \in [CallIds -> ConcProcedures] :
            \E inputs \in [CallIds -> UNION {ConcInputsOf(p) : p \in ConcProcedures}] :
               /\ \A c \in CallIds : inputs[c] \in ConcInputsOf(procs[c])
               /\ calls' = [c \in CallIds |->
                     [NewCall(procs[c], inputs[c], token) EXCEPT
                         !.pc = "context",
                         !.context = createRPCContext(token),
                         !.steps = <<"context-built">>]]
    /\ UNCHANGED <<users, log, gateVars, sanVars, pageVars, appVars>>

\* a step of call c after its arrival
ConcStep(c) ==
    \/ RpcBuildContext(c) \/ RpcTimingEnter(c)
    \/ RpcAuthorize(c) \/ RpcValidateInput(c)
    \/ RpcUpdateProfile(c) \/ RpcDeleteAccount(c)
    \/ RpcListPage(c) \/ RpcListCount(c)
    \/ RpcValidateOutput(c) \/ RpcTimingExit(c) \/ RpcRespond(c)

(***************************************************************************)
(* A procedure built with timingMiddleware applied more than once:         *)
(* o.use(timingMiddleware).use(timingMiddleware)... .handler(h).  frames   *)
(* holds the shouldLog of the layers entered and not yet left.             *)
(***************************************************************************)
MaxLayers == 3

\* how the handler under the layers ends
ChainOutcomes ==
    {Ok("value"), Err("UNAUTHORIZED"), Err("NOT_FOUND"), Err("INTERNAL_SERVER_ERROR")}

ChainReceive(c) ==
    /\ calls[c].pc = "idle"
    /\ \E layers \in 1..MaxLayers, outcome \in ChainOutcomes, token \in Tokens :
          calls' = [calls EXCEPT ![c] =
             [pc |-> "entering", proc |-> "layered", layers |-> layers,
              outcome |-> outcome, context |-> createRPCContext(token),
              frames |-> << >>, result |-> Undefined]]
    /\ UNCHANGED <<users, log, gateVars, sanVars, pageVars, appVars>>

\* the next layer runs up to its call of next()
ChainTimingEnter(c) ==
    /\ calls[c].pc = "entering"
    /\ Len(calls[c].frames) < calls[c].layers
    /\ calls' = [calls EXCEPT ![c] =
          [@ EXCEPT !.frames = Append(@, timingMiddleware(calls[c].context).shouldLog),
                    !.context = timingMiddleware(calls[c].context).next]]
    /\ UNCHANGED <<users, log, gateVars, sanVars, pageVars, appVars>>

\* below the last layer: the rest of the chain returns or throws
ChainHandler(c) ==
    /\ calls[c].pc = "entering"
    /\ Len(calls[c].frames) = calls[c].layers
    /\ calls' = [calls EXCEPT ![c] =
          [@ EXCEPT !.pc = "leaving", !.result = calls[c].outcome]]
    /\ UNCHANGED <<users, log, gateVars, sanVars, pageVars, appVars>>

\* the finally block of the innermost layer not yet left
ChainTimingExit(c) ==
    /\ calls[c].pc = "leaving"
    /\ LET n == Len(calls[c].frames)
       IN  /\ calls' = [calls EXCEPT ![c] =
                 [@ EXCEPT !.frames = SubSeq(@, 1, n - 1),
                           !.pc = IF n = 1 THEN "done" ELSE "leaving"]]
           /\ log' = IF calls[c].frames[n]
                     THEN Append(log, [call |-> c, path |-> calls[c].proc])
                     ELSE log
    /\ UNCHANGED <<users, gateVars, sanVars, pageVars, appVars>>

ChainStep(c) ==
    \/ ChainReceive(c) \/ ChainTimingEnter(c) \/ ChainHandler(c)
    \/ ChainTimingExit(c)

(***************************************************************************)
(* Page requests: the gate, then the render of the page with the Session   *)
(* Resolver (server/auth getServerSession), then the RPC calls the page    *)
(* makes with the same cookie.                                             *)
(***************************************************************************)
\* the tokens whose session can expire or be revoked while the model runs
ExpirableTokens == {"tA"}

SessionExpire ==
    /\ \E token \in ExpirableTokens \ store.expired :
          store' = [store EXCEPT !.expired = @ \cup {token}]
    /\ UNCHANGED <<pages, gateVars, sanVars, rpcVars, appVars>>

\* the session store or its database stops answering
StoreFail ==
    /\ store.up
    /\ store' = [store EXCEPT !.up = FALSE]
    /\ UNCHANGED <<pages, gateVars, sanVars, rpcVars, appVars>>

StoreRecover ==
    /\ ~store.up
    /\ store' = [store EXCEPT !.up = TRUE]
    /\ UNCHANGED <<pages, gateVars, sanVars, rpcVars, appVars>>

\* the pages requested: Home, the dashboard, the sign-in form
PagePaths == {"/", "/dashboard", "/sgnin"}

\* the session cookie a browser holding the token sends
CookieOf(token) == IF token = "none" THEN Undefined ELSE Str(token)

MaxResolverCalls == 2

\* a request for a page arrives and passes the edge
PageReceive(r) ==
    /\ pages[r].pc = "idle"
    /\ \E path \in PagePaths, token \in Tokens :
          LET resp == GateAnswer([url |-> RequestURL(path, Null),
                                  cookie |-> CookieOf(token)])
          IN  pages' = [pages EXCEPT ![r] =
                 [pc |-> IF resp.kind \in {"next", "bypass"}
                         THEN "rendering" ELSE "done",
                  path |-> path, token |-> token, gate |-> resp.kind,
                  expiredOnArrival |-> token \in store.expired,
                  memo |-> Undefined, resolutions |-> 0, results |-> << >>,
                  view |-> IF resp.kind \in {"next", "bypass"}
                           THEN Undefined ELSE Str("gate-" \o resp.kind),
                  rpc |-> Undefined]]
    /\ UNCHANGED <<store, gateVars, sanVars, rpcVars, appVars>>

\* the resolver without React's cache around it
getServerSession_NoCache(page) ==
    [memo |-> getSession(page.token),
     resolutions |-> page.resolutions + 1,
     result |-> getSession(page.token)]

\* getServerSession = cache(async () => auth.api.getSession(...)): the first
\* call of a request resolves, the later ones get what the first one got
\* (a value or the exception)
getServerSession(page) ==
    IF page.memo # Undefined
    THEN [memo |-> page.memo, resolutions |-> page.resolutions,
          result |-> page.memo]
    ELSE [memo |-> getSession(page.token),
          resolutions |-> page.resolutions + 1,
          result |-> getSession(page.token)]

\* the pages whose server components call getServerSession
UsesSession(path) == path = "/"

\* a component of the render pass awaits getServerSession()
PageGetSession(r) ==
    /\ pages[r].pc = "rendering"
    /\ UsesSession(pages[r].path)
    /\ Len(pages[r].results) < MaxResolverCalls
    /\ pages' = [pages EXCEPT ![r] =
          [@ EXCEPT !.memo = getServerSession(pages[r]).memo,
                    !.resolutions = getServerSession(pages[r]).resolutions,
                    !.results = Append(@, getServerSession(pages[r]).result)]]
    /\ UNCHANGED <<store, gateVars, sanVars, rpcVars, appVars>>

\* what the page shows: Home branches on session?.user, the dashboard and
\* the sign-in form do not look at the session
View(path, results) ==
    CASE path = "/" ->
            IF results[1] = Thrown THEN "error"
            ELSE IF results[1] # Null /\ results[1].user # Undefined
            THEN "user-list"
            ELSE "logo"
      [] path = "/dashboard" -> "dashboard"
      [] path = "/sgnin" -> "signin-form"

\* the render pass ends
PageRender(r) ==
    /\ pages[r].pc = "rendering"
    /\ UsesSession(pages[r].path) => Len(pages[r].results) >= 1
    /\ pages' = [pages EXCEPT ![r] =
          [@ EXCEPT !.pc = "rendered",
                    !.view = Str(View(pages[r].path, pages[r].results))]]
    /\ UNCHANGED <<store, gateVars, sanVars, rpcVars, appVars>>

\* the page calls a protectedProcedure with the cookie of the request: the
\* context is built and the procedure's middleware checks it
PageRpc(r) ==
    /\ pages[r].pc = "rendered"
    /\ pages[r].rpc = Undefined
    /\ LET context == createRPCContext(pages[r].token)
           result  == IF context = Thrown THEN Err("INTERNAL_SERVER_ERROR")
                      ELSE IF sessionLacksUser(context) THEN Err("UNAUTHORIZED")
                      ELSE Ok("handler")
       IN  pages' = [pages EXCEPT ![r] = [@ EXCEPT !.rpc = result]]
    /\ UNCHANGED <<store, gateVars, sanVars, rpcVars, appVars>>

PageRespond(r) ==
    /\ pages[r].pc \in {"rendered", "done"}
    /\ pages' = [pages EXCEPT ![r] = IdlePage]
    /\ UNCHANGED <<store, gateVars, sanVars, rpcVars, appVars>>

PageStep(r) ==
    \/ PageReceive(r) \/ PageGetSession(r) \/ PageRender(r)
    \/ PageRpc(r) \/ PageRespond(r)

(***************************************************************************)
(* Startup: src/env.js (createEnv), loaded by the Next.js configuration,   *)
(* and the values the auth configuration reads from it.                    *)
(***************************************************************************)
\* z.url(): the string has a scheme and something after it
zUrl(v) ==
    /\ v.t = "string"
    /\ LET colon == FirstIn(v.s, {":"}, 1)
       IN  /\ colon > 1 /\ colon < Len(v.s)
           /\ \A i \in 1..(colon - 1) : CharAt(v.s, i) \in SchemeChars

\* z.email(): local part, "@", a domain with a dot inside
zEmail(v) ==
    /\ v.t = "string"
    /\ LET at == FirstIn(v.s, {"@"}, 1)
           dot == FirstIn(v.s, {"."}, at + 2)
       IN  /\ at > 1 /\ at < Len(v.s)
           /\ FirstIn(v.s, {"@"}, at + 1) > Len(v.s)
           /\ dot < Len(v.s)

\* the server and client schemas of createEnv: does the value pass
EnvSchema(key, v) ==
    CASE key = "BETTER_AUTH_SECRET" -> v.t = "string"
      [] key \in {"BETTER_AUTH_URL", "DATABASE_URL",
                  "EMAIL_VERIFICATION_CALLBACK_URL",
                  "NEXT_PUBLIC_BETTER_AUTH_URL"} -> zUrl(v)
      [] key = "RESEND_API_KEY" -> v.t = "string" /\ Len(v.s) >= 1
      [] key = "EMAIL_FROM" -> zEmail(v)
      [] key = "NODE_ENV" ->
            v = Undefined \/ v \in {Str("development"), Str("test"), Str("production")}

EnvSchemaKeys ==
    {"BETTER_AUTH_SECRET", "BETTER_AUTH_URL", "DATABASE_URL", "RESEND_API_KEY",
     "EMAIL_FROM", "EMAIL_VERIFICATION_CALLBACK_URL", "NODE_ENV",
     "NEXT_PUBLIC_BETTER_AUTH_URL"}

\* the keys of the runtimeEnv option: what createEnv copies from process.env
RuntimeEnvKeys == EnvSchemaKeys

\* the environments a process is started with
ProcessEnvs ==
    [BETTER_AUTH_SECRET : {Undefined, Str(""), Str("s3cret")},
     BETTER_AUTH_URL : {Undefined, Str("app.example"), Str("https://app.example")},
     DATABASE_URL : {Undefined, Str("postgres://db/app")},
     RESEND_API_KEY : {Str(""), Str("re_key")},
     EMAIL_FROM : {Str("noreply"), Str("noreply@app.example")},
     EMAIL_VERIFICATION_CALLBACK_URL : {Str("https://app.example/email-verified")},
     NODE_ENV : {Undefined, Str("production"), Str("staging")},
     NEXT_PUBLIC_BETTER_AUTH_URL : {Undefined, Str("https://app.example")},
     GOOGLE_CLIENT_ID : {Undefined, Str("gid")},
     GOOGLE_CLIENT_SECRET : {Undefined, Str("gsecret")},
     SKIP_ENV_VALIDATION : {Undefined, Str("1")}]

\* createEnv: runtimeEnv with empty strings dropped; returned as it is when
\* SKIP_ENV_VALIDATION is set, else checked against the schemas (it throws
\* when a value fails) and returned with the defaults filled in
createEnv(processEnv) ==
    LET runtimeEnv ==
            [k \in RuntimeEnvKeys |->
                IF processEnv[k] = Str("") THEN Undefined ELSE processEnv[k]]
    IN  IF ~Falsy(processEnv.SKIP_ENV_VALIDATION) THEN runtimeEnv
        ELSE IF \A k \in EnvSchemaKeys : EnvSchema(k, runtimeEnv[k])
        THEN [runtimeEnv EXCEPT !.NODE_ENV =
                 IF @ = Undefined THEN Str("development") ELSE @]
        ELSE Thrown

\* env.KEY: undefined for a key createEnv did not copy
EnvGet(env, key) == IF key \in DOMAIN env THEN env[key] ELSE Undefined

\* the process is launched with some environment
Launch ==
    /\ boot.phase = "off"
    /\ \E processEnv \in ProcessEnvs :
          boot' = [phase |-> "loading", processEnv |-> processEnv]
    /\ UNCHANGED <<form, gateVars, sanVars, rpcVars, pageVars>>

\* next.config.js: import "./src/env.js"
LoadEnv ==
    /\ boot.phase = "loading"
    /\ boot' = IF createEnv(boot.processEnv) = Thrown
               THEN [phase |-> "aborted", processEnv |-> boot.processEnv]
               ELSE [phase |-> "configured", processEnv |-> boot.processEnv,
                     env |-> createEnv(boot.processEnv)]
    /\ UNCHANGED <<form, gateVars, sanVars, rpcVars, pageVars>>

\* betterAuth({ ... socialProviders: { google: { clientId, clientSecret,
\* redirectURI } } }): the server starts serving
ConfigureAuth ==
    /\ boot.phase = "configured"
    /\ boot' = [phase |-> "serving", processEnv |-> boot.processEnv,
                env |-> boot.env,
                google |-> [clientId |-> EnvGet(boot.env, "GOOGLE_CLIENT_ID"),
                            clientSecret |-> EnvGet(boot.env, "GOOGLE_CLIENT_SECRET"),
                            baseURL |-> EnvGet(boot.env, "BETTER_AUTH_URL")]]
    /\ UNCHANGED <<form, gateVars, sanVars, rpcVars, pageVars>>

Shutdown ==
    /\ boot.phase \in {"aborted", "serving"}
    /\ boot' = ProcessOff
    /\ UNCHANGED <<form, gateVars, sanVars, rpcVars, pageVars>>

(***************************************************************************)
(* Auth server actions: src/app/actions/auth.ts over the schemas of        *)
(* src/schemas/auth.ts. A schema is modelled by the issues safeParse       *)
(* reports: a sequence of [path, message], empty when the data pass.       *)
(***************************************************************************)
\* formData.get(name) is a string, a File or null
File == [t |-> "file"]

UpperCase ==
    {"A", "B", "C", "D", "E", "F", "G", "H", "I", "J", "K", "L", "M",
     "N", "O", "P", "Q", "R", "S", "T", "U", "V", "W", "X", "Y", "Z"}

LowerCase ==
    {"a", "b", "c", "d", "e", "f", "g", "h", "i", "j", "k", "l", "m",
     "n", "o", "p", "q", "r", "s", "t", "u", "v", "w", "x", "y", "z"}

Digits == {"0", "1", "2", "3", "4", "5", "6", "7", "8", "9"}

\* /[cs]/.test(s)
HasIn(s, cs) == FirstIn(s, cs, 1) <= Len(s)

\* /[^cs]/.test(s)
HasOutside(s, cs) == \E i \in 1..Len(s) : CharAt(s, i) \notin cs

\* String.prototype.trim
RECURSIVE trim(_)
trim(s) ==
    IF Len(s) > 0 /\ CharAt(s, 1) = " " THEN trim(Drop(s, 1))
    ELSE IF Len(s) > 0 /\ CharAt(s, Len(s)) = " " THEN trim(SubSeq(s, 1, Len(s) - 1))
    ELSE s

Issue(path, message) == [path |-> path, message |-> message]

\* one check of a schema: no issue when passed
Check(passed, path, message) ==
    IF passed THEN << >> ELSE <<Issue(path, message)>>

\* the issue of z.string() for a value that is not a string; it ends the
\* checks of the field and of the object around it
NotAString(path) == <<Issue(path, "Invalid input: expected string")>>

emailSchema(path, v) ==
    IF v.t # "string" THEN NotAString(path)
    ELSE LET checks ==
                Check(Len(v.s) >= 1, path, "Email is required")
                \o Check(zEmail(v), path, "Please enter a valid email address")
         IN  IF checks # << >> THEN checks
             ELSE Check(Len(trim(v.s)) <= 254, path,
                        "Email must not exceed 254 characters")

passwordSchema(path, v) ==
    IF v.t # "string" THEN NotAString(path)
    ELSE Check(Len(v.s) >= 1, path, "Password is required")
         \o Check(Len(v.s) >= 8, path, "Password must be at least 8 characters")
         \o Check(Len(v.s) <= 128, path, "Password must not exceed 128 characters")

loginSchema(rawData) ==
    emailSchema("email", rawData.email)
    \o passwordSchema("password", rawData.password)

\* registerSchema.name
registerNameSchema(path, v) ==
    IF v.t # "string" THEN NotAString(path)
    ELSE LET checks ==
                Check(Len(v.s) >= 1, path, "Name is required")
                \o Check(Len(v.s) >= 2, path, "Name must be at least 2 characters")
                \o Check(Len(v.s) <= 100, path, "Name must not exceed 100 characters")
         IN  IF checks # << >> THEN checks
             ELSE Check(/\ Len(trim(v.s)) >= 1
                        /\ ~HasOutside(trim(v.s),
                                       UpperCase \cup LowerCase \cup {" ", "'", "-"}),
                        path,
                        "Name can only contain letters, spaces, hyphens, and apostrophes")

\* the password of registerSchema (special = TRUE) and of resetPasswordSchema
strongPasswordSchema(path, v, special) ==
    IF v.t # "string" THEN NotAString(path)
    ELSE Check(Len(v.s) >= 1, path, "Password is required")
         \o Check(Len(v.s) >= 8, path, "Password must be at least 8 characters")
         \o Check(Len(v.s) <= 128, path, "Password must not exceed 128 characters")
         \o Check(HasIn(v.s, UpperCase), path,
                  "Password must contain at least one uppercase letter")
         \o Check(HasIn(v.s, LowerCase), path,
                  "Password must contain at least one lowercase letter")
         \o Check(HasIn(v.s, Digits), path,
                  "Password must contain at least one number")
         \o (IF special
             THEN Check(HasOutside(v.s, UpperCase \cup LowerCase \cup Digits), path,
                        "Password must contain at least one special character")
             ELSE << >>)

registerSchema(rawData) ==
    registerNameSchema("name", rawData.name)
    \o emailSchema("email", rawData.email)
    \o strongPasswordSchema("password", rawData.password, TRUE)

forgotPasswordSchema(rawData) == emailSchema("email", rawData.email)

\* the refinement of the object runs unless a field was not a string
resetPasswordSchema(rawData) ==
    strongPasswordSchema("password", rawData.password, FALSE)
    \o (IF rawData.confirmPassword.t # "string" THEN NotAString("confirmPassword")
        ELSE Check(Len(rawData.confirmPassword.s) >= 1, "confirmPassword",
                   "Please confirm your password"))
    \o (IF rawData.password.t = "string" /\ rawData.confirmPassword.t = "string"
        THEN Check(rawData.password.s = rawData.confirmPassword.s,
                   "confirmPassword", "Passwords do not match")
        ELSE << >>)

\* the messages of the issues with the given path, in order
RECURSIVE MessagesAt(_, _)
MessagesAt(issues, path) ==
    IF issues = << >> THEN << >>
    ELSE (IF Head(issues).path = path THEN <<Head(issues).message>> ELSE << >>)
         \o MessagesAt(Tail(issues), path)

\* issues.forEach(issue => { errors[issue.path[0]] ??= []; ...push(message) })
ActionErrors(issues) ==
    [path \in {issues[i].path : i \in DOMAIN issues} |-> MessagesAt(issues, path)]

\* FormData.get: null for a name the form does not carry
FormGet(formData, name) ==
    IF name \in DOMAIN formData THEN formData[name] ELSE Null

\* what the auth client resolves to: { data, error }, or a rejection
AuthError(code, message) == [code |-> code, message |-> message]

BackendReplies ==
    { Thrown,
      [data |-> [t |-> "object"], error |-> Null],
      [data |-> Null, error |-> Null],
      [data |-> Null,
       error |-> AuthError(Str("INVALID_CREDENTIALS"), Str("Invalid email or password"))],
      [data |-> Null, error |-> AuthError(Str("RATE_LIMITED"), Str("Slow down"))],
      [data |-> Null, error |-> AuthError(Undefined, Undefined)] }

getAuthErrorMessage(error) ==
    LET errorMessages ==
            [INVALID_CREDENTIALS |-> "Invalid email or password",
             USER_NOT_FOUND |-> "No account found with this email",
             ACCOUNT_LOCKED |-> "Your account has been locked. Please contact support.",
             TOO_MANY_ATTEMPTS |-> "Too many login attempts. Please try again later.",
             EMAIL_NOT_VERIFIED |-> "Please verify your email before signing in."]
    IN  IF error.code.t = "string" /\ error.code.s # ""
           /\ error.code.s \in DOMAIN errorMessages
        THEN errorMessages[error.code.s]
        ELSE IF error.message.t = "string" THEN error.message.s
        ELSE "Authentication failed"

\* error.message ?? fallback
MessageOr(error, fallback) ==
    IF error.message.t = "string" THEN error.message.s ELSE fallback

\* the ActionState values the actions return
Succeeded(message) == [success |-> TRUE, message |-> message]

Failed(message) == [success |-> FALSE, message |-> message]

FailedWith(message, errors) ==
    [success |-> FALSE, message |-> message, errors |-> errors]

\* return of an action: the ActionState and the number of backend calls made
Returns(state, backendCalls) == [state |-> state, backendCalls |-> backendCalls]

Unexpected == Failed("An unexpected error occurred. Please try again.")

\* An action is a function of the form data and of the reply of the auth
\* client, which it looks at only when it has made the call.
loginAction(formData, reply) ==
    LET rawData == [email |-> FormGet(formData, "email"),
                    password |-> FormGet(formData, "password")]
        issues == loginSchema(rawData)
    IN  IF issues # << >>
        THEN Returns(FailedWith("Please correct the errors below",
                                ActionErrors(issues)), 0)
        ELSE IF reply = Thrown THEN Returns(Unexpected, 1)
        ELSE IF reply.error # Null
        THEN Returns(FailedWith(getAuthErrorMessage(reply.error),
                                [password |-> <<getAuthErrorMessage(reply.error)>>]), 1)
        ELSE IF reply.data = Null
        THEN Returns(Failed("Authentication failed. Please try again."), 1)
        ELSE Returns(Succeeded("Successfully signed in!"), 1)

registerAction(formData, reply) ==
    LET rawData == [name |-> FormGet(formData, "name"),
                    email |-> FormGet(formData, "email"),
                    password |-> FormGet(formData, "password")]
        issues == registerSchema(rawData)
    IN  IF issues # << >>
        THEN Returns(FailedWith("Please correct the errors below",
                                ActionErrors(issues)), 0)
        ELSE IF reply = Thrown THEN Returns(Unexpected, 1)
        ELSE IF reply.error # Null
        THEN Returns(FailedWith(MessageOr(reply.error, "Failed to create account"),
                                [email |-> <<MessageOr(reply.error,
                                                       "Failed to create account")>>]), 1)
        ELSE IF reply.data = Null
        THEN Returns(Failed("Failed to create account. Please try again."), 1)
        ELSE Returns(Succeeded("Account created! Please check your email to verify."), 1)

forgotPasswordAction(formData, reply) ==
    LET rawData == [email |-> FormGet(formData, "email")]
        issues == forgotPasswordSchema(rawData)
    IN  IF issues # << >>
        THEN Returns(FailedWith("Please correct the errors below",
                                ActionErrors(issues)), 0)
        ELSE IF reply = Thrown THEN Returns(Unexpected, 1)
        ELSE IF reply.error # Null
        THEN Returns(Failed(MessageOr(reply.error, "Failed to send reset email")), 1)
        ELSE Returns(Succeeded("Password reset link sent! Check your email."), 1)

\* resetPasswordAction without the test of the token
resetPasswordAction_NoTokenCheck(formData, reply) ==
    LET rawData == [password |-> FormGet(formData, "password"),
                    confirmPassword |-> FormGet(formData, "confirmPassword"),
                    token |-> FormGet(formData, "token")]
        issues == resetPasswordSchema([password |-> rawData.password,
                                       confirmPassword |-> rawData.confirmPassword])
    IN  IF issues # << >>
        THEN Returns(FailedWith("Please correct the errors below",
                                ActionErrors(issues)), 0)
        ELSE IF reply = Thrown THEN Returns(Unexpected, 1)
        ELSE IF reply.error # Null
        THEN Returns(Failed(MessageOr(reply.error, "Failed to reset password")), 1)
        ELSE Returns(Succeeded("Password reset successful!"), 1)

resetPasswordAction(formData, reply) ==
    LET rawData == [password |-> FormGet(formData, "password"),
                    confirmPassword |-> FormGet(formData, "confirmPassword"),
                    token |-> FormGet(formData, "token")]
        issues == resetPasswordSchema([password |-> rawData.password,
                                       confirmPassword |-> rawData.confirmPassword])
    IN  IF Falsy(rawData.token)
        THEN Returns(Failed("Invalid reset token"), 0)
        ELSE IF issues # << >>
        THEN Returns(FailedWith("Please correct the errors below",
                                ActionErrors(issues)), 0)
        ELSE IF reply = Thrown THEN Returns(Unexpected, 1)
        ELSE IF reply.error # Null
        THEN Returns(Failed(MessageOr(reply.error, "Failed to reset password")), 1)
        ELSE Returns(Succeeded("Password reset successful!"), 1)

ActionNames ==
    {"loginAction", "registerAction", "forgotPasswordAction", "resetPasswordAction"}

RunAction(name, formData, reply) ==
    CASE name = "loginAction" -> loginAction(formData, reply)
      [] name = "registerAction" -> registerAction(formData, reply)
      [] name = "forgotPasswordAction" -> forgotPasswordAction(formData, reply)
      [] name = "resetPasswordAction" -> resetPasswordAction(formData, reply)

\* the values a submitted form carries
Emails == {Null, Str(""), Str("bad"), Str("a@b.co")}

Passwords ==
    {Null, Str(""), Str("short"), Str("password"), Str("Passw0rd"), Str("Passw0rd!")}

PersonNames == {Null, Str("A"), Str("Al"), Str("Al3")}

Confirmations == {Str(""), Str("Passw0rd"), Str("other")}

ResetTokens == {Null, File, Str(""), Str("tok")}

FormsOf(name) ==
    CASE name = "loginAction" -> [email : Emails, password : Passwords]
      [] name = "registerAction" ->
            [name : PersonNames, email : Emails, password : Passwords]
      [] name = "forgotPasswordAction" -> [email : Emails]
      [] name = "resetPasswordAction" ->
            [password : Passwords, confirmPassword : Confirmations,
             token : ResetTokens]

\* the form is submitted: the action starts
ActionInvoke ==
    /\ form.pc = "idle"
    /\ \E name \in ActionNames : \E formData \in FormsOf(name) :
          form' = [pc |-> "running", action |-> name, formData |-> formData,
                   backendCalls |-> 0]
    /\ UNCHANGED <<boot, gateVars, sanVars, rpcVars, pageVars>>

\* the action up to its return or to the call of the auth client
ActionValidate ==
    /\ form.pc = "running"
    /\ LET out == RunAction(form.action, form.formData, Thrown)
       IN  form' = IF out.backendCalls = 0
                   THEN [form EXCEPT !.pc = "returned"] @@ [state |-> out.state]
                   ELSE [form EXCEPT !.pc = "awaiting", !.backendCalls = 1]
    /\ UNCHANGED <<boot, gateVars, sanVars, rpcVars, pageVars>>

\* the auth client settles and the action returns
BackendReply ==
    /\ form.pc = "awaiting"
    /\ \E reply \in BackendReplies :
          form' = [form EXCEPT !.pc = "returned"]
                  @@ [reply |-> reply,
                      state |-> RunAction(form.action, form.formData, reply).state]
    /\ UNCHANGED <<boot, gateVars, sanVars, rpcVars, pageVars>>

\* the ActionState has been handed to the form
ActionReturn ==
    /\ form.pc = "returned"
    /\ form' = NoAction
    /\ UNCHANGED <<boot, gateVars, sanVars, rpcVars, pageVars>>

\* sanOut = Undefined: the call has not returned yet
SanInit ==
    /\ sanIn \in SanInputs
    /\ sanOut = Undefined
    /\ gateReq = NoReq
    /\ gateResp = NoResp
    /\ hops = 0
    /\ trail = << >>
    /\ users = InitialUsers
    /\ calls = [c \in CallIds |-> IdleCall]
    /\ log = << >>
    /\ store = StoreAtStart
    /\ pages = [r \in PageIds |-> IdlePage]
    /\ boot = ProcessOff
    /\ form = NoAction

Sanitize ==
    /\ sanOut = Undefined
    /\ sanOut' = Str(getSafeCallbackUrl(sanIn))
    /\ UNCHANGED <<sanIn, gateVars, rpcVars, pageVars, appVars>>

SanNextInput ==
    /\ sanOut # Undefined
    /\ sanIn' \in SanInputs
    /\ sanOut' = Undefined
    /\ UNCHANGED <<gateVars, rpcVars, pageVars, appVars>>

\* no request at the gate, no call in flight, the user table as seeded
Init ==
    /\ gateReq = NoReq
    /\ gateResp = NoResp
    /\ hops = 0
    /\ trail = << >>
    /\ sanIn = Undefined
    /\ sanOut = Undefined
    /\ users = InitialUsers
    /\ calls = [c \in CallIds |-> IdleCall]
    /\ log = << >>
    /\ store = StoreAtStart
    /\ pages = [r \in PageIds |-> IdlePage]
    /\ boot = ProcessOff
    /\ form = NoAction

GateNext == Receive \/ Gate \/ Bypass \/ Follow \/ Finish

SpecGate == Init /\ [][GateNext]_vars

\* one call at a time
RpcNext == RpcStep(1)

SpecRpc == Init /\ [][RpcNext]_vars

\* one call at a time, of a router procedure or of a layered one
TimingNext == RpcStep(1) \/ ChainStep(1)

SpecTiming == Init /\ [][TimingNext]_vars

\* page requests in flight together, over a store that changes
PageNext ==
    \/ \E r \in PageIds : PageStep(r)
    \/ SessionExpire \/ StoreFail \/ StoreRecover

SpecPage == Init /\ [][PageNext]_vars

\* the gate and the navigations of a successful sign-in
SignInNext == GateNext \/ SignInRefresh \/ SignInPush

SpecSignIn == Init /\ [][SignInNext]_vars

\* the gate at work while the session store changes
GateStoreNext == GateNext \/ SessionExpire \/ StoreFail \/ StoreRecover

SpecGateStore == Init /\ [][GateStoreNext]_vars

BootNext == Launch \/ LoadEnv \/ ConfigureAuth \/ Shutdown

SpecBoot == Init /\ [][BootNext]_vars

\* calls of several requests and of batches, their steps interleaved
ConcNext ==
    \/ BatchReceive
    \/ \E c \in CallIds : ConcReceive(c) \/ ConcStep(c)

SpecConc == Init /\ [][ConcNext]_vars

\* a form is submitted to one of the auth server actions
ActionsNext == ActionInvoke \/ ActionValidate \/ BackendReply \/ ActionReturn

SpecActions == Init /\ [][ActionsNext]_vars

SanNext == Sanitize \/ SanNextInput

SpecSanitize == SanInit /\ [][SanNext]_vars

(***************************************************************************)
(* Properties of the Edge Gate                                             *)
(***************************************************************************)
\* the middleware itself answered the current request
GateAnswered == gateResp.kind \in {"next", "redirect", "throw"}

IsGuestOnly(pathname) ==
    /\ ~matchesRoute(pathname, NO_AUTH_ROUTES)
    /\ matchesRoute(pathname, GUEST_ONLY_ROUTES)

IsProtectedOrAdmin(pathname) ==
    /\ ~matchesRoute(pathname, NO_AUTH_ROUTES)
    /\ ~matchesRoute(pathname, GUEST_ONLY_ROUTES)
    /\ (matchesRoute(pathname, ADMIN_ROUTES) \/ matchesRoute(pathname, PROTECTED_ROUTES))

IsUnrestricted(pathname) ==
    \/ matchesRoute(pathname, NO_AUTH_ROUTES)
    \/ /\ ~matchesRoute(pathname, GUEST_ONLY_ROUTES)
       /\ ~matchesRoute(pathname, ADMIN_ROUTES)
       /\ ~matchesRoute(pathname, PROTECTED_ROUTES)

\* length of the callbackUrl parameter of a URL, -1 when it has none
CallbackLen(url) ==
    LET v == searchParamsGet(url.search, "callbackUrl")
    IN  IF v = Null THEN -1 ELSE Len(v.s)

\* C2: when the gate answers a request without a session cookie for a
\* protected or admin path P, the answer is a redirect to the sign-in route
\* of the application whose callbackUrl query parameter decodes to P.
C2_SignInRedirectCarriesPath ==
    (GateAnswered /\ IsProtectedOrAdmin(gateReq.url.pathname)
        /\ ~hasSessionCookie(gateReq))
    => /\ gateResp.kind = "redirect"
       /\ InApp(gateResp.location)
       /\ gateResp.location.pathname = ROUTES.SIGNIN
       /\ searchParamsGet(gateResp.location.search, "callbackUrl")
            = Str(gateReq.url.pathname)

C2_Witness ==
    /\ GateAnswered
    /\ gateReq.url.pathname = "/dashboard/admin/users"
    /\ gateReq.cookie = Undefined
    /\ gateResp.kind = "redirect"
    /\ gateResp.location.search = "?callbackUrl=%2Fdashboard%2Fadmin%2Fusers"

C4_DashboardRedirectsToLogin ==
    (GateAnswered /\ hops = 0 /\ gateReq.url.pathname = "/dashboard"
        /\ gateReq.url.search = "" /\ gateReq.cookie = Undefined)
    => /\ gateResp.kind = "redirect"
       /\ gateResp.status \in 300..399
       /\ gateResp.location.pathname \o gateResp.location.search
            = "/login?callbackUrl=%2Fdashboard"

\* C5: every redirect the gate issues for a guest-only path stays on the
\* origin of the request.
C5_GuestRedirectSameOrigin ==
    (GateAnswered /\ IsGuestOnly(gateReq.url.pathname) /\ gateResp.kind = "redirect")
    => Origin(gateResp.location) = Origin(gateReq.url)

\* C7: a guest-only path with a session cookie is answered with a redirect
\* to getSafeCallbackUrl(callbackUrl parameter), and is allowed without one.
C7_GuestOnlyDecision ==
    (GateAnswered /\ IsGuestOnly(gateReq.url.pathname))
    => IF hasSessionCookie(gateReq)
       THEN /\ gateResp.kind = "redirect"
            /\ gateResp.location =
                 ResolveURL(getSafeCallbackUrl(
                              searchParamsGet(gateReq.url.search, "callbackUrl")),
                            gateReq.url)
       ELSE gateResp.kind = "next"

\* C8: a path in none of the guest-only, admin and protected lists (or in
\* NO_AUTH_ROUTES) is allowed by the gate, with and without a cookie.
C8_UnrestrictedAllowed ==
    (GateAnswered /\ IsUnrestricted(gateReq.url.pathname))
    => gateResp.kind = "next"

C8_Witness ==
    /\ GateAnswered
    /\ gateReq.url.pathname = "/dashboardx"
    /\ gateReq.cookie = Undefined
    /\ gateResp.kind = "next"

(***************************************************************************)
(* Properties of getSafeCallbackUrl                                        *)
(***************************************************************************)
\* the rule of the contract, stated on the characters of the candidate
SanitizeRule(v) ==
    IF /\ v.t = "string"
       /\ Len(v.s) >= 1 /\ CharAt(v.s, 1) = "/"
       /\ ~(Len(v.s) >= 2 /\ CharAt(v.s, 2) = "/")
    THEN v.s
    ELSE "/"

\* C6: getSafeCallbackUrl returns a string for every input, the input itself
\* when it starts with "/" but not with "//", and "/" otherwise (null,
\* undefined and "" included); the four examples of the contract hold.
C6_SanitizeMatchesRule ==
    sanOut # Undefined =>
        /\ sanOut.t = "string"
        /\ sanOut.s = SanitizeRule(sanIn)
        /\ (sanIn = Str("https://evil.example/x") => sanOut.s = "/")
        /\ (sanIn = Str("//evil.example") => sanOut.s = "/")
        /\ (sanIn = Str("/dashboard") => sanOut.s = "/dashboard")
        /\ (sanIn = Null => sanOut.s = "/")

C6_Witness == sanIn = Str("//evil.example") /\ sanOut = Str("/")

(***************************************************************************)
(* Properties of the RPC dispatch layer and the user router                *)
(***************************************************************************)
Finished(call) == call.pc \in {"unwinding", "done"}

\* the request's credential resolves to no session, or to one without a user
NoResolvedSession(call) ==
    \/ getSession(call.token) = Null
    \/ getSession(call.token).user = Undefined

IsPrefix(s, t) == Len(s) <= Len(t) /\ SubSeq(t, 1, Len(s)) = s

\* C1: a call of a protected procedure whose context has no resolved session
\* issues no statement, never reaches its handler and ends with UNAUTHORIZED;
\* every call of a protected procedure passes its stages in the order
\* context-built, authorization-checked, handler-executed.
C1_UnauthorizedBeforeHandler ==
    \A c \in CallIds :
        (calls[c].pc # "idle" /\ calls[c].proc \in ProtectedProcedures) =>
            /\ IsPrefix(calls[c].steps,
                        <<"context-built", "authorization-checked", "handler-executed">>)
            /\ NoResolvedSession(calls[c]) =>
                  /\ calls[c].dbOps = << >>
                  /\ calls[c].pc \notin {"authorized", "validated", "handled"}
                  /\ Finished(calls[c]) => calls[c].result = Err("UNAUTHORIZED")

C1_Witness ==
    /\ calls[1].pc = "done"
    /\ calls[1].proc = "user.deleteAccount"
    /\ calls[1].token = "tNoUser"
    /\ calls[1].result = Err("UNAUTHORIZED")
    /\ calls[1].steps = <<"context-built", "authorization-checked">>
    /\ users = InitialUsers

\* C9: a successful user.getById or user.list payload carries exactly the
\* fields id, name and image for each user, whoever calls.
C9_PublicPayloadFields ==
    \A c \in CallIds :
        (calls[c].pc # "idle" /\ Finished(calls[c]) /\ calls[c].result.ok) =>
            /\ calls[c].proc = "user.getById" =>
                  DOMAIN calls[c].result.value = {"id", "name", "image"}
            /\ calls[c].proc = "user.list" =>
                  \A i \in 1..Len(calls[c].result.value.users) :
                      DOMAIN calls[c].result.value.users[i] = {"id", "name", "image"}

C9_Witness ==
    /\ calls[1].pc = "done"
    /\ calls[1].proc = "user.list"
    /\ calls[1].token = "tA"
    /\ calls[1].result.ok
    /\ Len(calls[1].result.value.users) = 2
    /\ \E id \in DOMAIN users : users[id].role = Str("admin")

\* C10: user.search without a resolved session ends with UNAUTHORIZED; with
\* one it returns at most limit users, limit being 10 when omitted and
\* within 1..50 otherwise.
C10_SearchGuardedAndLimited ==
    \A c \in CallIds :
        (calls[c].pc # "idle" /\ Finished(calls[c]) /\ calls[c].proc = "user.search") =>
            /\ NoResolvedSession(calls[c]) => calls[c].result = Err("UNAUTHORIZED")
            /\ calls[c].result.ok =>
                  LET limit == IF calls[c].input.limit = Undefined THEN 10
                               ELSE calls[c].input.limit.n
                  IN  /\ ~NoResolvedSession(calls[c])
                      /\ limit \in 1..50
                      /\ calls[c].parsed.limit = limit
                      /\ Len(calls[c].result.value) <= limit

\* three users match, one is returned
C10_Witness ==
    /\ calls[1].pc = "done"
    /\ calls[1].proc = "user.search"
    /\ calls[1].token = "tB"
    /\ calls[1].input = [query |-> Str("%"), limit |-> Num(1)]
    /\ calls[1].result.ok
    /\ Len(calls[1].result.value) = 1
    /\ Cardinality(NameMatches(users, "%")) = 3

\* number of timing lines in the log that belong to call c
TimingLines(c) == Len(SelectSeq(log, LAMBDA line : line.call = c))

\* the timing middleware has been left for good
TimingOver(call) == call.pc = "done"

\* C11: a call never has more than one timing line, and has exactly one
\* once its outermost timing layer is left: with one layer or several, and
\* whether the call returned or ended in UNAUTHORIZED, NOT_FOUND or a thrown
\* handler error.
C11_TimingLoggedOnce ==
    \A c \in CallIds :
        /\ TimingLines(c) <= 1
        /\ TimingOver(calls[c]) => TimingLines(c) = 1

\* two layers, the handler throws NOT_FOUND
C11_Witness ==
    /\ calls[1].pc = "done"
    /\ calls[1].proc = "layered"
    /\ calls[1].layers = 2
    /\ calls[1].result = Err("NOT_FOUND")
    /\ TimingLines(1) = 1

(***************************************************************************)
(* Route classification                                                    *)
(***************************************************************************)
\* the path is the route itself, or the route followed by "/" and more
ListedOrBelow(pathname, route) ==
    \/ pathname = route
    \/ /\ Len(pathname) > Len(route)
       /\ \A i \in 1..Len(route) : CharAt(pathname, i) = CharAt(route, i)
       /\ CharAt(pathname, Len(route) + 1) = "/"

InList(pathname, routes) ==
    \E i \in 1..Len(routes) : ListedOrBelow(pathname, routes[i])

\* the tier of a path: the first list that has it, in the order exempt,
\* guest-only, admin, protected
Tier(pathname) ==
    IF InList(pathname, NO_AUTH_ROUTES) THEN "exempt"
    ELSE IF InList(pathname, GUEST_ONLY_ROUTES) THEN "guest-only"
    ELSE IF InList(pathname, ADMIN_ROUTES) THEN "admin"
    ELSE IF InList(pathname, PROTECTED_ROUTES) THEN "protected"
    ELSE "unrestricted"

\* what a tier means for a request with or without a session cookie
TierAllows(tier, cookie) ==
    CASE tier \in {"exempt", "unrestricted"} -> TRUE
      [] tier = "guest-only" -> ~cookie
      [] tier \in {"admin", "protected"} -> cookie

\* C12: the gate matches a path against a list exactly when the path is a
\* listed route or continues one after a "/" ("/dashboardx" is not under
\* "/dashboard"), and it lets a request through exactly when the tier of its
\* path (first of exempt, guest-only, admin, protected that has the path,
\* unrestricted when none has) allows it for its cookie.
C12_ClassificationDecides ==
    GateAnswered =>
        /\ \A routes \in {NO_AUTH_ROUTES, GUEST_ONLY_ROUTES, ADMIN_ROUTES,
                           PROTECTED_ROUTES} :
              matchesRoute(gateReq.url.pathname, routes)
                 <=> InList(gateReq.url.pathname, routes)
        /\ ~matchesRoute("/dashboardx", <<"/dashboard">>)
        /\ gateResp.kind = "next"
              <=> TierAllows(Tier(gateReq.url.pathname), hasSessionCookie(gateReq))

C12_Witness ==
    /\ GateAnswered
    /\ gateReq.url.pathname = "/dashboard/admin/users"
    /\ Tier(gateReq.url.pathname) = "admin"
    /\ gateReq.cookie = Str("tok")
    /\ gateResp.kind = "next"

\* the lists of the route constants that have the path
ListsMatching(pathname) ==
    {name \in {"guest-only", "protected", "admin", "exempt"} :
        matchesRoute(pathname,
            CASE name = "guest-only" -> GUEST_ONLY_ROUTES
              [] name = "protected"  -> PROTECTED_ROUTES
              [] name = "admin"      -> ADMIN_ROUTES
              [] name = "exempt"     -> NO_AUTH_ROUTES)}

\* C13: the path of a request matches at most one of the lists guest-only,
\* protected, admin and exempt.
C13_AtMostOneTier ==
    gateReq # NoReq => Cardinality(ListsMatching(gateReq.url.pathname)) <= 1

\* the redirect target the gate has to build for this request does not parse
RedirectTargetFails(request) ==
    /\ hasSessionCookie(request)
    /\ IsGuestOnly(request.url.pathname)
    /\ ResolveURL(getSafeCallbackUrl(
                     searchParamsGet(request.url.search, "callbackUrl")),
                  request.url) = Failure

\* C14: the gate never ends a request with an exception; when building the
\* redirect URL fails, the request is allowed.
C14_GateFailsOpen ==
    GateAnswered =>
        /\ gateResp.kind # "throw"
        /\ RedirectTargetFails(gateReq) => gateResp.kind = "next"

(***************************************************************************)
(* Properties of the Session Resolver and of page requests                 *)
(***************************************************************************)
InFlight(page) == page.pc # "idle"

\* C15: getServerSession never throws: when the store raises an error it
\* resolves to null and the page shows its unauthenticated view; and a
\* request whose session had expired when it arrived, or that names no
\* session with a user, is never shown the authenticated view.
C15_ResolverFailsClosed ==
    \A r \in PageIds :
        InFlight(pages[r]) =>
            /\ \A i \in 1..Len(pages[r].results) : pages[r].results[i] # Thrown
            /\ pages[r].view # Str("error")
            /\ pages[r].view = Str("user-list") =>
                  /\ ~pages[r].expiredOnArrival
                  /\ SessionOf(pages[r].token) # Null
                  /\ SessionOf(pages[r].token).user # Undefined

\* C16: a request that called getServerSession at all resolved exactly once,
\* every call of the request got that one result, and the result is the
\* request's own: null, the exception, or the session its token names.
C16_OneResolutionPerRequest ==
    \A r \in PageIds :
        InFlight(pages[r]) =>
            /\ pages[r].resolutions = IF Len(pages[r].results) = 0 THEN 0 ELSE 1
            /\ \A i \in 1..Len(pages[r].results) :
                  /\ pages[r].results[i] = pages[r].memo
                  /\ pages[r].results[i]
                        \in {Null, Thrown, SessionOf(pages[r].token)}

\* request 1 resolved tA's session before it expired and keeps it for its
\* second call; request 2, with the same token, resolved for itself
C16_Witness ==
    /\ "tA" \in store.expired
    /\ InFlight(pages[1]) /\ pages[1].token = "tA"
    /\ pages[1].results = <<SessionOf("tA"), SessionOf("tA")>>
    /\ pages[1].resolutions = 1
    /\ InFlight(pages[2]) /\ pages[2].token = "tA"
    /\ pages[2].results = <<Null>>
    /\ pages[2].resolutions = 1

\* C17: a request for a protected or admin path that carries the cookie of
\* a session expired on arrival is let through by the gate, gets null from
\* every resolver call, is shown an unauthenticated view or a redirect, and
\* its protected RPC call is refused (UNAUTHORIZED, or the server error of a
\* store that does not answer).
C17_ExpiredSessionUnauthenticated ==
    \A r \in PageIds :
        (/\ InFlight(pages[r])
         /\ pages[r].expiredOnArrival
         /\ hasSessionCookie([cookie |-> CookieOf(pages[r].token)])
         /\ IsProtectedOrAdmin(pages[r].path)) =>
            /\ pages[r].gate = "next"
            /\ \A i \in 1..Len(pages[r].results) :
                  pages[r].results[i] \in {Null, Thrown}
            /\ pages[r].view \in {Undefined, Str("logo"), Str("redirect")}
            /\ pages[r].rpc \in {Undefined, Err("UNAUTHORIZED"),
                                  Err("INTERNAL_SERVER_ERROR")}

(***************************************************************************)
(* Properties of the procedures that work on the caller's own record       *)
(***************************************************************************)
OwnRecordProcedures == {"user.me", "user.updateProfile", "user.deleteAccount"}

\* the user the credential of a call stands for, if any
Caller(call) ==
    IF SessionOf(call.token) # Null /\ SessionOf(call.token).user # Undefined
    THEN {SessionOf(call.token).user.id}
    ELSE {}

\* C18: no step of a me, updateProfile or deleteAccount call updates or
\* deletes the row of a user other than the caller, every statement of such
\* a call names the caller's id, and the reply carries the caller's row only,
\* whatever id the caller sends along in the input.
C18_OnlyCallersRow ==
    [][\A c \in CallIds :
          (calls[c].pc # "idle" /\ calls[c].proc \in OwnRecordProcedures) =>
             /\ \A id \in UserIds \ Caller(calls[c]) :
                   /\ id \in DOMAIN users <=> id \in DOMAIN users'
                   /\ id \in DOMAIN users => users'[id] = users[id]
             /\ \A i \in 1..Len(calls[c].dbOps) :
                   calls[c].dbOps[i].id \in Caller(calls[c])
             /\ (Finished(calls[c]) /\ calls[c].result.ok
                   /\ calls[c].proc # "user.deleteAccount")
                => calls[c].result.value.id \in Caller(calls[c])]_vars

\* the caller (u1) sends id u2 along: u1's row is renamed, u2's is untouched
C18_Witness ==
    /\ calls[1].pc = "done"
    /\ calls[1].proc = "user.updateProfile"
    /\ calls[1].token = "tA"
    /\ calls[1].input.id = Str("u2")
    /\ calls[1].result.ok
    /\ users["u1"].name = "Zed"
    /\ users["u2"] = InitialUsers["u2"]

SingleRecordProcedures == OwnRecordProcedures \cup {"user.getById"}

\* the id of the record a call at its handler is about
TargetRecord(call) ==
    IF call.proc = "user.getById" THEN call.parsed.userId
    ELSE call.context.session.user.id

\* C19: when the handler of me, updateProfile, deleteAccount or getById runs
\* and the record it targets does not exist, the call ends with NOT_FOUND
\* (and so returns no data).
C19_MissingRecordNotFound ==
    [][\A c \in CallIds :
          (/\ calls[c].pc # "idle"
           /\ calls[c].proc \in SingleRecordProcedures
           /\ calls[c].pc = HandlerPc(calls[c].proc)
           /\ calls'[c].pc \in {"handled", "unwinding"}
           /\ TargetRecord(calls[c]) \notin DOMAIN users)
          => calls'[c].result = Err("NOT_FOUND")]_vars

\* C20: no request goes on to routing without the middleware having run on
\* it: static assets, paths with a dot and paths under /api included.
C20_GateSeesEveryRequest ==
    (gateReq # NoReq /\ gateResp # NoResp) => gateResp.kind # "bypass"

(***************************************************************************)
(* What the gate's decision depends on                                     *)
(***************************************************************************)
\* C21: the answer of the gate to a request is the answer it gives to the
\* same URL with any other cookie that is non-empty exactly when the
\* request's cookie is (valid, forged or expired alike), in every state of
\* the session store.
C21_DecisionIgnoresCookieContents ==
    GateAnswered =>
        /\ \A other \in Cookies :
              (Falsy(other) <=> Falsy(gateReq.cookie)) =>
                  gateResp = authMiddleware([url |-> gateReq.url, cookie |-> other])

\* the cookie of an expired session, a store that is down: let through
C21_Witness ==
    /\ GateAnswered
    /\ gateReq.cookie = Str("tA")
    /\ "tA" \in store.expired
    /\ ~store.up
    /\ gateReq.url.pathname = "/dashboard/settings"
    /\ gateResp.kind = "next"

C23_ServesOnlyValidConfig ==
    boot.phase = "serving" =>
        /\ \A k \in EnvSchemaKeys : EnvSchema(k, EnvGet(boot.env, k))
        /\ boot.google.clientId.t = "string"
        /\ boot.google.clientSecret.t = "string"

(***************************************************************************)
(* Properties of calls in flight together                                  *)
(***************************************************************************)
\* the timing lines of call c
LinesOf(c) == SelectSeq(log, LAMBDA line : line.call = c)

\* C24: with calls in flight together, each call has no timing line until
\* its timing layer is left and exactly one from then on, carrying its own
\* procedure path; the calls of one batch are no exception.
C24_ConcurrentTimingLines ==
    \A c \in CallIds :
        calls[c].pc # "idle" =>
            /\ Len(LinesOf(c)) = IF calls[c].pc = "done" THEN 1 ELSE 0
            /\ \A i \in 1..Len(LinesOf(c)) : LinesOf(c)[i].path = calls[c].proc

\* both calls done with the same credential, the line of call 2 written
\* before the line of call 1
C24_Witness ==
    /\ calls[1].pc = "done" /\ calls[2].pc = "done"
    /\ calls[1].token = calls[2].token
    /\ calls[1].proc = "user.list" /\ calls[2].proc = "user.deleteAccount"
    /\ log = <<[call |-> 2, path |-> "user.deleteAccount"],
               [call |-> 1, path |-> "user.list"]>>

(***************************************************************************)
(* Properties of input validation                                          *)
(***************************************************************************)
\* the inputs the contract of the three procedures rules out
InputRuledOut(call) ==
    CASE call.proc = "user.list" ->
            \/ call.input.limit # Undefined
                 /\ (call.input.limit.n < 1 \/ call.input.limit.n > 100)
            \/ call.input.offset # Undefined /\ call.input.offset.n < 0
      [] call.proc = "user.search" ->
            \/ call.input.query = Str("")
            \/ call.input.limit # Undefined
                 /\ (call.input.limit.n < 1 \/ call.input.limit.n > 50)
      [] call.proc = "user.updateProfile" -> call.input.name = Str("")
      [] OTHER -> FALSE

\* the defaults for omitted limit and offset are in the parsed input
DefaultsFilled(call) ==
    /\ (call.proc = "user.list" /\ call.input.limit = Undefined)
          => call.parsed.limit = 20
    /\ (call.proc = "user.list" /\ call.input.offset = Undefined)
          => call.parsed.offset = 0
    /\ (call.proc = "user.search" /\ call.input.limit = Undefined)
          => call.parsed.limit = 10

\* C25 (as stated): a call with a ruled-out input never reaches its handler,
\* issues no statement and ends with the validation error; omitted limit and
\* offset are parsed to 20 and 0 (list) and 10 (search).
C25_InvalidInputValidationError ==
    \A c \in CallIds :
        calls[c].pc # "idle" =>
            /\ InputRuledOut(calls[c]) =>
                  /\ calls[c].dbOps = << >>
                  /\ calls[c].pc \notin {"validated", "handled"}
                  /\ Finished(calls[c]) => calls[c].result = Err("BAD_REQUEST")
            /\ calls[c].parsed # Undefined => DefaultsFilled(calls[c])

\* C25 (amended): as above, except that the error is UNAUTHORIZED when the
\* procedure is protected and the call has no resolved session: the
\* authorization check precedes the validation of the input.
C25_InvalidInputRejected ==
    \A c \in CallIds :
        calls[c].pc # "idle" =>
            /\ InputRuledOut(calls[c]) =>
                  /\ calls[c].dbOps = << >>
                  /\ calls[c].pc \notin {"validated", "handled"}
                  /\ Finished(calls[c]) =>
                        calls[c].result =
                           IF /\ calls[c].proc \in ProtectedProcedures
                              /\ NoResolvedSession(calls[c])
                           THEN Err("UNAUTHORIZED")
                           ELSE Err("BAD_REQUEST")
            /\ calls[c].parsed # Undefined => DefaultsFilled(calls[c])

\* user.list with limit 101 is turned down without a statement
C25_Witness ==
    /\ calls[1].pc = "done"
    /\ calls[1].proc = "user.list"
    /\ calls[1].input.limit = Num(101)
    /\ calls[1].result = Err("BAD_REQUEST")
    /\ calls[1].dbOps = << >>

(***************************************************************************)
(* Properties of the auth server actions                                   *)
(***************************************************************************)
\* the form data of the invocation fail the schema of its action
SchemaRejects(f) ==
    CASE f.action = "loginAction" ->
            loginSchema([email |-> FormGet(f.formData, "email"),
                         password |-> FormGet(f.formData, "password")]) # << >>
      [] f.action = "registerAction" ->
            registerSchema([name |-> FormGet(f.formData, "name"),
                            email |-> FormGet(f.formData, "email"),
                            password |-> FormGet(f.formData, "password")]) # << >>
      [] f.action = "forgotPasswordAction" ->
            forgotPasswordSchema([email |-> FormGet(f.formData, "email")]) # << >>
      [] f.action = "resetPasswordAction" ->
            resetPasswordSchema(
                [password |-> FormGet(f.formData, "password"),
                 confirmPassword |-> FormGet(f.formData, "confirmPassword")]) # << >>

\* resetPasswordAction got no token, or one that is not a string
TokenRejects(f) ==
    /\ f.action = "resetPasswordAction"
    /\ Falsy(FormGet(f.formData, "token"))

\* the ActionState carries message lists keyed by field
HasFieldErrors(state) ==
    /\ "errors" \in DOMAIN state
    /\ DOMAIN state.errors # {}
    /\ DOMAIN state.errors \subseteq {"email", "password", "name", "confirmPassword"}
    /\ \A field \in DOMAIN state.errors : state.errors[field] # << >>

\* the backend is called at most once and only for data that passed; an
\* action returns an ActionState; success only after a reply without error
ActionsCallAndReturn ==
    /\ form.pc \in {"awaiting", "returned"} =>
          /\ form.backendCalls \in {0, 1}
          /\ form.backendCalls = 1 => ~SchemaRejects(form) /\ ~TokenRejects(form)
    /\ form.pc = "returned" =>
          /\ form.state # Thrown
          /\ form.state.success \in BOOLEAN
          /\ (SchemaRejects(form) \/ TokenRejects(form)) =>
                ~form.state.success /\ form.backendCalls = 0
          /\ form.state.success =>
                /\ form.backendCalls = 1
                /\ form.reply # Thrown
                /\ form.reply.error = Null

\* C26 (as stated): a server action never throws and returns an ActionState;
\* for form data failing validation, and for resetPasswordAction without a
\* string token, it returns success=false with field-keyed message lists and
\* does not call the backend; the backend is called at most once and only
\* after validation passed; success=true only when the backend reported no
\* error.
C26_RejectionsCarryFieldErrors ==
    /\ ActionsCallAndReturn
    /\ (form.pc = "returned" /\ (SchemaRejects(form) \/ TokenRejects(form))) =>
          HasFieldErrors(form.state)

\* C26 (amended): as stated, except that resetPasswordAction without a string
\* token returns success=false with the message "Invalid reset token" alone,
\* without field-keyed message lists; the lists are there when the token is
\* accepted and the schema rejects the data.
C26_ActionsReturnActionState ==
    /\ ActionsCallAndReturn
    /\ form.pc = "returned" =>
          /\ TokenRejects(form) => form.state = Failed("Invalid reset token")
          /\ (SchemaRejects(form) /\ ~TokenRejects(form)) =>
                HasFieldErrors(form.state)

\* resetPasswordAction has returned for a form without token whose passwords
\* pass the schema
C26_Witness ==
    /\ form.pc = "returned"
    /\ form.action = "resetPasswordAction"
    /\ form.formData.token = Null
    /\ ~SchemaRejects(form)
    /\ ~form.state.success
    /\ form.backendCalls = 0

(***************************************************************************)
(* Properties of the callback round trip                                   *)
(***************************************************************************)
\* the exchange began with a request without cookie that the gate sent to
\* sign-in, and a sign-in on the page it was sent to has succeeded
SignedInAfterRedirect ==
    /\ Len(trail) >= 2
    /\ ~hasSessionCookie(trail[1].req)
    /\ IsProtectedOrAdmin(trail[1].req.url.pathname)
    /\ trail[1].resp.kind = "redirect"
    /\ trail[2].req.url = trail[1].resp.location
    /\ trail[2].resp = ResponseNext

\* the path the exchange began with
RequestedPath == trail[1].req.url.pathname

\* C27: for every path P the gate classifies as protected or admin,
\* getSafeCallbackUrl(P) = P; after the gate sent a request for P to sign-in,
\* the sign-in page reads P back from callbackUrl, the navigation after the
\* sign-in requests exactly P and the gate lets it through, and the gate's
\* redirect of the sign-in location, once the cookie is there, leads to P.
C27_CallbackRoundTrip ==
    /\ \A P \in RequestPaths :
          IsProtectedOrAdmin(P) => getSafeCallbackUrl(Str(P)) = P
    /\ SignedInAfterRedirect =>
          /\ useSafeCallback(trail[2].req.url) = RequestedPath
          /\ hasSessionCookie(gateReq)
          /\ \/ /\ gateReq.url.pathname = RequestedPath
                /\ gateResp \in {NoResp, ResponseNext}
             \/ /\ Len(trail) = 2
                /\ gateReq.url = trail[2].req.url
                /\ gateResp # NoResp =>
                      /\ gateResp.kind = "redirect"
                      /\ gateResp.location.pathname = RequestedPath
                      /\ InApp(gateResp.location)

\* after the sign-in the client is let through to /dashboard/a+b, the path
\* it had asked for without cookie
C27_Witness ==
    /\ SignedInAfterRedirect
    /\ RequestedPath = "/dashboard/a+b"
    /\ Len(trail) = 2
    /\ gateReq.url.pathname = "/dashboard/a+b"
    /\ gateResp = ResponseNext

(***************************************************************************)
(* Properties of user.updateProfile                                        *)
(***************************************************************************)
\* the columns user.updateProfile may write
ProfileColumns == {"name", "image", "updatedAt"}

\* C28: no step of a user.updateProfile call adds or removes a row or
\* changes a column other than name, image and updatedAt: the role, email,
\* emailVerified, banned and id of the caller (and of everyone else) are the
\* same after the step as before, whatever extra keys the input carries.
C28_UpdateProfileColumns ==
    [][\A c \in CallIds :
          (calls[c].pc # "idle" /\ calls[c].proc = "user.updateProfile") =>
             /\ DOMAIN users' = DOMAIN users
             /\ \A id \in DOMAIN users :
                   \A column \in DOMAIN users[id] \ ProfileColumns :
                      users'[id][column] = users[id][column]]_vars

\* u2, who has no role, has sent role "admin" along with a new name: the
\* name is written, the role is not
C28_Witness ==
    /\ calls[1].pc = "done"
    /\ calls[1].proc = "user.updateProfile"
    /\ calls[1].token = "tB"
    /\ calls[1].input.role = Str("admin")
    /\ calls[1].input.name = Str("Zed")
    /\ calls[1].result.ok
    /\ users["u2"].name = "Zed"
    /\ users["u2"].updatedAt = "now"
    /\ users["u2"].role = Null

(***************************************************************************)
(* Properties of user.list among concurrent calls                          *)
(***************************************************************************)
\* C29: the reply of user.list is a consistent page: its total is not
\* smaller than the number of users in the page, and the page has at most
\* limit entries, also when steps of other calls fall between the page
\* statement and the count statement.
C29_ListPageConsistent ==
    \A c \in CallIds :
        (/\ calls[c].pc # "idle"
         /\ calls[c].proc = "user.list"
         /\ calls[c].result # Undefined
         /\ calls[c].result.ok) =>
            /\ calls[c].result.value.total >= Len(calls[c].result.value.users)
            /\ Len(calls[c].result.value.users) <= calls[c].parsed.limit

(***************************************************************************)
(* Properties of calls made after the caller's account was deleted         *)
(***************************************************************************)
\* the credential of the call names a user whose row is gone
CallerDeleted(call) ==
    Caller(call) # {} /\ Caller(call) \cap DOMAIN users = {}

\* the step takes the call through its handler
HandlerStep(c) ==
    /\ calls[c].pc # "idle"
    /\ calls[c].pc = HandlerPc(calls[c].proc)
    /\ calls'[c].pc \in {"handled", "unwinding"}

\* a call of a protected procedure with a credential that names a user is
\* not turned down as unauthorized, whether the user's row exists or not
PassesAuthorization(call) ==
    (/\ call.pc # "idle"
     /\ call.proc \in ProtectedProcedures
     /\ Caller(call) # {}
     /\ Finished(call)) => call.result # Err("UNAUTHORIZED")

\* C30: deleteAccount deletes the caller's row and nothing else, and leaves
\* the session store as it is; a later call with the same session passes the
\* authorization check, and then me and updateProfile end with NOT_FOUND,
\* deleteAccount returns success=true again, getById of a deleted id ends
\* with NOT_FOUND, and the page of list holds no deleted user.
C30_AfterDeleteAccount ==
    [][\A c \in CallIds :
          /\ PassesAuthorization(calls'[c])
          /\ (HandlerStep(c) /\ calls[c].proc = "user.deleteAccount"
                /\ Caller(calls[c]) # {}) =>
                /\ calls'[c].result = Ok([success |-> TRUE])
                /\ DOMAIN users' = DOMAIN users \ Caller(calls[c])
                /\ \A id \in DOMAIN users' : users'[id] = users[id]
                /\ store' = store
          /\ (HandlerStep(c) /\ calls[c].proc \in {"user.me", "user.updateProfile"}
                /\ CallerDeleted(calls[c])) =>
                calls'[c].result = Err("NOT_FOUND")
          /\ (HandlerStep(c) /\ calls[c].proc = "user.getById"
                /\ calls[c].parsed.userId \notin DOMAIN users) =>
                calls'[c].result = Err("NOT_FOUND")
          /\ (calls[c].pc # "idle" /\ calls'[c].pc # "idle"
                /\ calls[c].proc = "user.list"
                /\ calls[c].page = Undefined /\ calls'[c].page # Undefined) =>
                \A i \in 1..Len(calls'[c].page.rows) :
                   calls'[c].page.rows[i].id \in DOMAIN users]_vars

\* u1 has deleted the account, and user.me with the same session has ended
\* with NOT_FOUND
C30_Witness ==
    /\ calls[1].pc = "done"
    /\ calls[1].proc = "user.me"
    /\ calls[1].token = "tA"
    /\ "u1" \notin DOMAIN users
    /\ calls[1].result = Err("NOT_FOUND")
    /\ "handler-executed" \in {calls[1].steps[i] : i \in 1..Len(calls[1].steps)}

====
